---- MODULE Spec2Model ----
(***************************************************************************)
(* Model of the Rapid7 InsightIDR client (Rapid7Client.request and its     *)
(* error classifier handleErrorResponse).  One invocation of request is a  *)
(* small process: it builds the URL, headers and body, starts the timeout  *)
(* timer, issues the network call and is suspended until the call settles; *)
(* its continuation cancels the timer and decodes or classifies the        *)
(* response.                                                               *)
(***************************************************************************)
EXTENDS Integers, Sequences, FiniteSets, TLC

(***************************************************************************)
(* Bounds of the exploration.                                              *)
(***************************************************************************)
NumCalls == 2
MaxHeaderLen == 2
MaxParams == 2
MaxSlashes == 3
MaxTimeoutLen == 2

Calls == 1..NumCalls

(***************************************************************************)
(* JavaScript values.  Every value is a record of the same shape so that   *)
(* values of different types can be compared.                              *)
(***************************************************************************)
JsVal(t, n, s, b) == [t |-> t, n |-> n, s |-> s, b |-> b]
Undefined == JsVal("undefined", 0, "", FALSE)
Null == JsVal("null", 0, "", FALSE)
NaN == JsVal("NaN", 0, "", FALSE)
Num(n) == JsVal("number", n, "", FALSE)
Str(s) == JsVal("string", 0, s, FALSE)
Bool(b) == JsVal("boolean", 0, "", b)
Obj(json) == JsVal("object", 0, json, FALSE)

\* ToBoolean: the test of `body ? ... : ...` and `retryAfter ? ... : ...`
Truthy(v) ==
  CASE v.t = "undefined" -> FALSE
    [] v.t = "null" -> FALSE
    [] v.t = "NaN" -> FALSE
    [] v.t = "number" -> v.n # 0
    [] v.t = "string" -> v.s # ""
    [] v.t = "boolean" -> v.b
    [] OTHER -> TRUE

\* String(value) as used for query parameter values and template literals
String(v) ==
  CASE v.t = "undefined" -> "undefined"
    [] v.t = "null" -> "null"
    [] v.t = "NaN" -> "NaN"
    [] v.t = "number" -> ToString(v.n)
    [] v.t = "string" -> v.s
    [] v.t = "boolean" -> (IF v.b THEN "true" ELSE "false")
    [] OTHER -> "[object Object]"

\* JSON.stringify(value): the JSON text, or undefined for undefined
JSONstringify(v) ==
  CASE v.t = "undefined" -> Undefined
    [] v.t = "null" -> Str("null")
    [] v.t = "NaN" -> Str("null")
    [] v.t = "number" -> Str(ToString(v.n))
    [] v.t = "string" -> Str("\"" \o v.s \o "\"")
    [] v.t = "boolean" -> Str(IF v.b THEN "true" ELSE "false")
    [] OTHER -> Str(v.s)

(***************************************************************************)
(* parseInt(text, 10) on a header value given as a sequence of characters: *)
(* an optional sign, then the longest run of decimal digits; NaN when      *)
(* there is no digit at that place.                                        *)
(***************************************************************************)
Digits == <<"0", "1", "2", "3", "4", "5", "6", "7", "8", "9">>
IsDigit(ch) == \E d \in 1..10 : Digits[d] = ch
DigitValue(ch) == (CHOOSE d \in 1..10 : Digits[d] = ch) - 1

RECURSIVE DigitRun(_, _)
\* the value of the longest prefix of digits of chars, continuing from acc
DigitRun(chars, acc) ==
  IF chars = <<>> \/ ~IsDigit(Head(chars))
  THEN acc
  ELSE DigitRun(Tail(chars), acc * 10 + DigitValue(Head(chars)))

RECURSIVE parseInt(_)
parseInt(chars) ==
  IF chars # <<>> /\ Head(chars) = " " THEN parseInt(Tail(chars))
  ELSE
  LET signed == chars # <<>> /\ Head(chars) \in {"-", "+"}
      rest == IF signed THEN Tail(chars) ELSE chars
      magnitude == DigitRun(rest, 0)
  IN IF rest = <<>> \/ ~IsDigit(Head(rest))
     THEN NaN
     ELSE Num(IF signed /\ Head(chars) = "-" THEN 0 - magnitude ELSE magnitude)

(***************************************************************************)
(* Errors.  message is the sequence of the pieces the template literal     *)
(* interpolates.                                                           *)
(***************************************************************************)
JsError(name, message, statusCode, retryAfter) ==
  [name |-> name, message |-> message, statusCode |-> statusCode,
   retryAfter |-> retryAfter]

NoError == JsError("", <<>>, Undefined, Undefined)

Rapid7ClientError(message, statusCode) ==
  JsError("Rapid7ClientError", message, statusCode, Undefined)

Rapid7AuthError(message, statusCode) ==
  JsError("Rapid7AuthError", message, statusCode, Undefined)

Rapid7RateLimitError(message, retryAfter) ==
  JsError("Rapid7RateLimitError", message, Num(429), retryAfter)

\* what fetch rejects with once the signal is aborted
AbortError == JsError("AbortError", <<"This operation was aborted">>, Undefined, Undefined)
\* what fetch rejects with on a connection failure
NetworkError == JsError("TypeError", <<"fetch failed">>, Undefined, Undefined)
\* what response.json() rejects with on a body that is not JSON
JsonSyntaxError == JsError("SyntaxError", <<"Unexpected token in JSON">>, Undefined, Undefined)
\* what response.json() rejects with when the body stream breaks
BodyReadError == JsError("TypeError", <<"terminated">>, Undefined, Undefined)

Contains(message, piece) == \E i \in 1..Len(message) : message[i] = piece

(***************************************************************************)
(* Configuration (getConfig).  A URL is the sequence of its pieces, each   *)
(* "/" being a piece of its own; an environment variable is unset or holds *)
(* a text.                                                                 *)
(***************************************************************************)
EnvVar(v) == [set |-> TRUE, v |-> v]
UnsetText == [set |-> FALSE, v |-> ""]
UnsetPieces == [set |-> FALSE, v |-> <<>>]
\* !value for a string | undefined
Falsy(var) == ~var.set \/ Len(var.v) = 0

Environment(apiKey, region, baseUrl, timeout) ==
  [RAPID7_API_KEY |-> apiKey, RAPID7_REGION |-> region,
   RAPID7_BASE_URL |-> baseUrl, RAPID7_TIMEOUT |-> timeout]

RegionUrl(region) == <<"https:", "/", "/", region \o ".api.insight.rapid7.com">>
REGION_URLS == [region \in {"us", "us2", "us3", "eu", "ca", "au", "ap"} |-> RegionUrl(region)]

\* String.prototype.toLowerCase on the region codes at hand
toLowerCase(text) ==
  CASE text = "US" -> "us"
    [] text = "EU" -> "eu"
    [] OTHER -> text

\* baseUrl.replace(/\/$/, ""): at most one trailing slash removed
stripOneSlash(url) ==
  IF url # <<>> /\ url[Len(url)] = "/" THEN SubSeq(url, 1, Len(url) - 1) ELSE url

RECURSIVE stripTrailingSlashes(_)
\* baseUrl.replace(/\/+$/, "")
stripTrailingSlashes(url) ==
  IF url # <<>> /\ url[Len(url)] = "/"
  THEN stripTrailingSlashes(SubSeq(url, 1, Len(url) - 1))
  ELSE url

\* number * 1000
times1000(v) == IF v.t = "number" THEN Num(v.n * 1000) ELSE NaN

Rapid7Config(baseUrl, apiKey, region, timeout) ==
  [baseUrl |-> baseUrl, apiKey |-> apiKey, region |-> region, timeout |-> timeout]
NoConfig == Rapid7Config(<<>>, "", "", Undefined)

ConfigReturned(cfg) == [threw |-> FALSE, error |-> NoError, config |-> cfg]
ConfigThrew(message) ==
  [threw |-> TRUE, error |-> JsError("Error", message, Undefined, Undefined),
   config |-> NoConfig]

getConfig(e) ==
  LET apiKey == e.RAPID7_API_KEY
      region == toLowerCase(IF ~e.RAPID7_REGION.set \/ e.RAPID7_REGION.v = "" THEN "us"
                            ELSE e.RAPID7_REGION.v)
      override == ~Falsy(e.RAPID7_BASE_URL)
      timeoutText == IF e.RAPID7_TIMEOUT.set THEN e.RAPID7_TIMEOUT.v ELSE <<"3", "0">>
  IN IF ~apiKey.set \/ apiKey.v = ""
     THEN ConfigThrew(<<"RAPID7_API_KEY environment variable is required. ">>)
     ELSE IF ~override /\ region \notin DOMAIN REGION_URLS
     THEN ConfigThrew(<<"Unknown RAPID7_REGION '", region, "'. ">>)
     ELSE ConfigReturned(Rapid7Config(
            stripTrailingSlashes(IF override THEN e.RAPID7_BASE_URL.v
                                 ELSE REGION_URLS[region]),
            apiKey.v, region, times1000(parseInt(timeoutText))))

\* the calls of main, in the order of its statements
RegisterCalls ==
  <<"registerInvestigationTools", "registerLogTools", "registerAlertTools",
    "registerAssetTools", "registerUserTools", "registerThreatTools",
    "registerQueryTools", "registerResources", "registerPrompts">>
StartupSteps == <<"getConfig", "Rapid7Client", "McpServer">> \o RegisterCalls \o <<"connect">>

\* the constructor of Rapid7Client keeps baseUrl, apiKey and timeout
newRapid7Client(cfg) ==
  [baseUrl |-> cfg.baseUrl, apiKey |-> cfg.apiKey, timeout |-> cfg.timeout]

\* environments of a running server
FewEnvs ==
  { Environment(EnvVar("key-A"), EnvVar("us"), UnsetPieces, UnsetPieces),
    Environment(EnvVar("key-B"), EnvVar("EU"), UnsetPieces, EnvVar(<<"5">>)) }

\* the client configurations of those environments
Configs == { newRapid7Client(getConfig(e).config) : e \in FewEnvs }

\* every environment getConfig is explored on
ApiKeys == {UnsetText, EnvVar(""), EnvVar("key-A")}
Regions == {UnsetText, EnvVar(""), EnvVar("us"), EnvVar("EU"), EnvVar("mars")}
Slashes(n) == [i \in 1..n |-> "/"]
BaseUrls ==
  {UnsetPieces, EnvVar(<<>>)}
    \cup { EnvVar(<<"https:", "/", "/", "idr.example.com">> \o Slashes(n)) : n \in 0..MaxSlashes }
    \cup { EnvVar(<<"https:", "/", "/", "proxy.example.com", "/", "api">> \o Slashes(n)) :
             n \in {0, MaxSlashes} }
TimeoutChars == {"3", "0", "-", "a"}
Timeouts ==
  {UnsetPieces} \cup
    { EnvVar(t) : t \in UNION { [1..n -> TimeoutChars] : n \in 0..MaxTimeoutLen } }
Envs ==
  { Environment(k, r, b, t) : k \in ApiKeys, r \in Regions, b \in BaseUrls, t \in Timeouts }

VARIABLES
  config,     \* the client's baseUrl, apiKey and timeout
  pc,         \* per invocation: where it is suspended
  desc,       \* per invocation: method, endpoint, params, body
  timer,      \* per invocation: state of the setTimeout of createAbortSignal
  aborted,    \* per invocation: controller.signal.aborted
  fetched,    \* per invocation: the network calls issued, in order
  response,   \* per invocation: the Response fetch resolved with
  bodyUsed,   \* per invocation: number of reads of the response body
  result,     \* per invocation: the state of the promise request returned
  env,        \* process.env
  main,       \* where main of the server is: start, connected or exited
  acc,        \* per invocation: the typed accessor called and its promise
  steps,      \* what main has done so far, in order
  exitCode,   \* the code the process exited with, if it has
  handler,    \* the tool handler running: its tool, arguments and position
  payload     \* what the tool handler returned

clientVars == <<config, pc, desc, timer, aborted, fetched, response, bodyUsed, result>>
bootVars == <<env, main, steps, exitCode>>
toolVars == <<handler, payload>>
vars == <<config, pc, desc, timer, aborted, fetched, response, bodyUsed, result,
          env, main, steps, exitCode, acc, handler, payload>>


(***************************************************************************)
(* Inputs: what a caller can pass to request and what the remote side can  *)
(* answer.                                                                 *)
(***************************************************************************)
Methods == {"GET", "POST", "PUT", "PATCH"}
\* a path template: every segment preceded by "/"
Path(segments) ==
  [i \in 1..(2 * Len(segments)) |-> IF i % 2 = 1 THEN "/" ELSE segments[i \div 2]]
Endpoints == {Path(<<"idr", "v2", "investigations">>)}

ParamKeys == {"a", "b", "c"}
ParamValues == {Undefined, Null, Str("x"), Num(3), Bool(FALSE)}
\* Object.entries(params): [key, value] pairs with pairwise distinct keys
EntryLists ==
  { es \in UNION { [1..n -> ParamKeys \X ParamValues] : n \in 0..MaxParams } :
      \A i, j \in 1..Len(es) : es[i][1] = es[j][1] => i = j }
NoParams == [present |-> FALSE, entries |-> <<>>]
ParamsOf(es) == [present |-> TRUE, entries |-> es]

BodyValues ==
  {Undefined, Null, Num(0), Bool(FALSE), Str(""), Str("note"), Obj("{\"title\":\"t\"}")}

Descriptor(method, endpoint, params, body) ==
  [method |-> method, endpoint |-> endpoint, params |-> params, body |-> body]
NoDescriptor == Descriptor("", <<>>, NoParams, Undefined)

\* the response body as the remote side sends it, and as response.json() decodes it
Body(k, message, data) == [k |-> k, message |-> message, data |-> data]
EmptyObject == Body("object", Undefined, "")
Bodies ==
  { Body("stalled", Undefined, ""),      \* the body never finishes arriving
    Body("unreadable", Undefined, ""),   \* the body stream breaks
    Body("notJSON", Undefined, ""),      \* text that is not JSON
    Body("null", Undefined, ""),         \* the JSON value null
    EmptyObject,                         \* {}
    Body("object", Undefined, "rows"),   \* {"data": [...]}
    Body("object", Str("denied"), ""),   \* {"message": "denied"}
    Body("object", Str(""), "") }        \* {"message": ""}

Statuses == {200, 204, 304, 401, 403, 404, 429, 500}
StatusTexts == {"", "Status Text"}
HeaderChars == {"3", "0", "a", "-"}
HeaderValues == UNION { [1..n -> HeaderChars] : n \in 0..MaxHeaderLen }
NoHeader == [present |-> FALSE, chars |-> <<>>]
RetryAfterHeaders == {NoHeader} \cup { [present |-> TRUE, chars |-> h] : h \in HeaderValues }

Response(status, statusText, retryAfter, body) ==
  [status |-> status, statusText |-> statusText, retryAfter |-> retryAfter,
   body |-> body]
NoResponse == Response(0, "", NoHeader, EmptyObject)
Responses ==
  { Response(st, tx, ra, b) :
      st \in Statuses, tx \in StatusTexts, ra \in RetryAfterHeaders, b \in Bodies }

\* response.ok
ok(r) == r.status >= 200 /\ r.status <= 299

Pending == [state |-> "pending", value |-> EmptyObject, error |-> NoError]
Fulfilled(value) == [state |-> "fulfilled", value |-> value, error |-> NoError]
Rejected(error) == [state |-> "rejected", value |-> EmptyObject, error |-> error]

(***************************************************************************)
(* Building the outbound call (request, up to the await of fetch).         *)
(***************************************************************************)
\* URLSearchParams.set: replace the first entry of that name and drop the
\* others, or append
searchParamsSet(query, key, value) ==
  IF \E i \in 1..Len(query) : query[i][1] = key
  THEN LET first == CHOOSE i \in 1..Len(query) :
                      /\ query[i][1] = key
                      /\ \A j \in 1..(i - 1) : query[j][1] # key
           RECURSIVE Rebuild(_)
           Rebuild(i) ==
             IF i > Len(query) THEN <<>>
             ELSE IF i = first THEN <<(<<key, value>>)>> \o Rebuild(i + 1)
             ELSE IF query[i][1] = key THEN Rebuild(i + 1)
             ELSE <<query[i]>> \o Rebuild(i + 1)
       IN Rebuild(1)
  ELSE Append(query, <<key, value>>)

RECURSIVE setEntriesKeepNull(_, _)
\* setEntries with the test reduced to `value !== undefined`
setEntriesKeepNull(entries, query) ==
  IF entries = <<>> THEN query
  ELSE LET key == Head(entries)[1]
           value == Head(entries)[2]
       IN setEntriesKeepNull(Tail(entries),
                             IF value # Undefined
                             THEN searchParamsSet(query, key, String(value))
                             ELSE query)

RECURSIVE setEntries(_, _)
\* the loop over Object.entries(params)
setEntries(entries, query) ==
  IF entries = <<>> THEN query
  ELSE LET key == Head(entries)[1]
           value == Head(entries)[2]
       IN setEntries(Tail(entries),
                     IF value # Undefined /\ value # Null
                     THEN searchParamsSet(query, key, String(value))
                     ELSE query)

buildUrl(baseUrl, endpoint, params) ==
  [href |-> baseUrl \o endpoint,
   searchParams |-> IF params.present THEN setEntries(params.entries, <<>>)
                    ELSE <<>>]

\* buildHeaders sending the key as a bearer token as well
buildHeadersBearer(apiKey) ==
  { <<"X-Api-Key", apiKey>>,
    <<"Authorization", "Bearer " \o apiKey>>,
    <<"Content-Type", "application/json">>,
    <<"Accept", "application/json">> }

buildHeaders(apiKey) ==
  { <<"X-Api-Key", apiKey>>,
    <<"Content-Type", "application/json">>,
    <<"Accept", "application/json">> }

serializeBody(body) == IF Truthy(body) THEN JSONstringify(body) ELSE Undefined

\* the arguments of fetch
fetchCall(cfg, d) ==
  [url |-> buildUrl(cfg.baseUrl, d.endpoint, d.params),
   method |-> d.method,
   headers |-> buildHeaders(cfg.apiKey),
   body |-> serializeBody(d.body)]

\* clear that cancels nothing
clearLeak(t) == t

\* clearTimeout(timeoutId): a pending timer is cancelled, a fired one stays fired
clear(t) == IF t = "pending" THEN "cleared" ELSE t

\* a call of a typed accessor: its name and arguments
AccessorCall(name, id, id2, params, body) ==
  [name |-> name, id |-> id, id2 |-> id2, params |-> params, body |-> body]
NoAccessorCall == AccessorCall("", "", "", NoParams, Undefined)

\* no accessor called yet
NoAccessor == [call |-> NoAccessorCall, result |-> Pending]

\* a tool handler called with its arguments, and where it is: idle, await,
\* returned or threw
\* the arguments of a tool as its schema hands them to the handler, defaults
\* filled in; Undefined where the tool has no such argument or none was given
Args(size, index, filter) ==
  [size |-> size, index |-> index, filter |-> filter,
   status |-> Undefined, priority |-> Undefined, disposition |-> Undefined,
   assignee_email |-> Undefined, title |-> Undefined,
   from |-> Undefined, to |-> Undefined, time_range |-> Undefined]
NoArgs == Args(Undefined, Undefined, Undefined)
ToolCall(tool, id, args) == [tool |-> tool, id |-> id, args |-> args]
Handler(call, at) == [call |-> call, pc |-> at]
NoHandler == Handler(ToolCall("", "", NoArgs), "idle")

\* what the result of a handler shows: the tool, the data of the primary
\* response and the timeline
Shaped(tool, data, timeline) ==
  [tool |-> tool, data |-> data, timeline |-> timeline,
   total |-> Undefined, size |-> Undefined, index |-> Undefined]
NoShaped == Shaped("", "", "")
\* the result of a paginated tool: its rows with total, size and index
ShapedPage(tool, data, total, size, index) ==
  [Shaped(tool, data, "absent") EXCEPT !.total = total, !.size = size, !.index = index]
\* { content: [{ type: "text", text }], isError? }: text is the JSON of the
\* shaped result, or of { error: message }
Payload(isError, error, shaped) == [isError |-> isError, error |-> error, shaped |-> shaped]
NoPayload == Payload("none", <<>>, NoShaped)
SuccessPayload(shaped) == Payload("absent", <<>>, shaped)
ErrorPayload(message) == Payload("true", message, NoShaped)

(***************************************************************************)
(* The state after construction: no invocation has started.                *)
(***************************************************************************)
Init ==
  /\ env \in FewEnvs
  /\ main = "connected"
  /\ steps = StartupSteps
  /\ exitCode = Undefined
  /\ config = newRapid7Client(getConfig(env).config)
  /\ pc = [c \in Calls |-> "idle"]
  /\ desc = [c \in Calls |-> NoDescriptor]
  /\ timer = [c \in Calls |-> "unset"]
  /\ aborted = [c \in Calls |-> FALSE]
  /\ fetched = [c \in Calls |-> <<>>]
  /\ response = [c \in Calls |-> NoResponse]
  /\ bodyUsed = [c \in Calls |-> 0]
  /\ result = [c \in Calls |-> Pending]
  /\ acc = [c \in Calls |-> NoAccessor]
  /\ handler = NoHandler
  /\ payload = NoPayload

\* request is called: URL, headers, createAbortSignal, fetch issued, suspended
StartRequest(c, ds) ==
  /\ pc[c] = "idle"
  /\ \E d \in ds :
       /\ desc' = [desc EXCEPT ![c] = d]
       /\ fetched' = [fetched EXCEPT ![c] = Append(@, fetchCall(config, d))]
  /\ timer' = [timer EXCEPT ![c] = "pending"]
  /\ aborted' = [aborted EXCEPT ![c] = FALSE]
  /\ pc' = [pc EXCEPT ![c] = "awaitFetch"]
  /\ UNCHANGED <<config, response, bodyUsed, result>>

\* TimerFires with one controller kept on the client and shared by all calls
TimerFiresShared(c) ==
  /\ timer[c] = "pending"
  /\ timer' = [timer EXCEPT ![c] = "fired"]
  /\ aborted' = [o \in Calls |-> TRUE]
  /\ UNCHANGED <<config, pc, desc, fetched, response, bodyUsed, result>>

\* the setTimeout callback of createAbortSignal runs: controller.abort()
TimerFires(c) ==
  /\ timer[c] = "pending"
  /\ timer' = [timer EXCEPT ![c] = "fired"]
  /\ aborted' = [aborted EXCEPT ![c] = TRUE]
  /\ UNCHANGED <<config, pc, desc, fetched, response, bodyUsed, result>>


(***************************************************************************)
(* The continuation of request once fetch settles.                         *)
(***************************************************************************)
\* afterFetch without the test of response.ok
afterFetchNoOkCheck(r) == IF r.status = 204 THEN "return204" ELSE "awaitJson"

\* afterFetch without the 204 check
afterFetchNo204(r) == IF ~ok(r) THEN "awaitErrorJson" ELSE "awaitJson"

\* where request goes once it holds a response: the classifier, the 204
\* return, or the JSON decoding
afterFetch(r) ==
  IF ~ok(r) THEN "awaitErrorJson"
  ELSE IF r.status = 204 THEN "return204"
  ELSE "awaitJson"

\* catchFetch testing for the wrong error name: the abort is rethrown as it is
catchFetchWrongName(error, timeout) ==
  IF error.name = "TimeoutError"
  THEN Rapid7ClientError(<<"InsightIDR API timeout after ", String(timeout), "ms">>,
                         Undefined)
  ELSE error

\* catchFetch that classifies every transport failure as a failure of the API
catchFetchWrapsAll(error, timeout) ==
  IF error.name = "AbortError"
  THEN Rapid7ClientError(<<"InsightIDR API timeout after ", String(timeout), "ms">>,
                         Undefined)
  ELSE Rapid7ClientError(error.message, Undefined)

\* the catch block around fetch: what request throws for a rejected fetch
catchFetch(error, timeout) ==
  IF error.name = "AbortError"
  THEN Rapid7ClientError(<<"InsightIDR API timeout after ", String(timeout), "ms">>,
                         Undefined)
  ELSE error

\* fetch resolves with a response (it cannot once the signal is aborted)
FetchResolves(c, rs) ==
  /\ pc[c] = "awaitFetch"
  /\ ~aborted[c]
  /\ timer' = [timer EXCEPT ![c] = clear(@)]
  /\ \E r \in rs :
       /\ response' = [response EXCEPT ![c] = r]
       /\ IF afterFetch(r) = "return204"
          THEN /\ pc' = [pc EXCEPT ![c] = "settled"]
               /\ result' = [result EXCEPT ![c] = Fulfilled(EmptyObject)]
               /\ UNCHANGED bodyUsed
          ELSE /\ pc' = [pc EXCEPT ![c] = afterFetch(r)]
               /\ bodyUsed' = [bodyUsed EXCEPT ![c] = @ + 1]
               /\ UNCHANGED result
  /\ UNCHANGED <<config, desc, aborted, fetched>>

\* what fetch can reject with: the abort once the timer has fired, a
\* transport failure before that
FetchErrors(c) == IF aborted[c] THEN {AbortError} ELSE {NetworkError}

\* FetchRejects with a retry: a transport failure issues the call again
FetchRejectsRetry(c) ==
  /\ pc[c] = "awaitFetch"
  /\ IF aborted[c]
     THEN /\ timer' = [timer EXCEPT ![c] = clear(@)]
          /\ result' = [result EXCEPT ![c] =
                          Rejected(catchFetch(AbortError, config.timeout))]
          /\ pc' = [pc EXCEPT ![c] = "settled"]
          /\ UNCHANGED fetched
     ELSE /\ fetched' = [fetched EXCEPT ![c] = Append(@, fetchCall(config, desc[c]))]
          /\ UNCHANGED <<timer, result, pc>>
  /\ UNCHANGED <<config, desc, aborted, response, bodyUsed>>

\* fetch rejects: the catch block clears the timer and throws
FetchRejects(c) ==
  /\ pc[c] = "awaitFetch"
  /\ timer' = [timer EXCEPT ![c] = clear(@)]
  /\ \E error \in FetchErrors(c) :
       result' = [result EXCEPT ![c] = Rejected(catchFetch(error, config.timeout))]
  /\ pc' = [pc EXCEPT ![c] = "settled"]
  /\ UNCHANGED <<config, desc, aborted, fetched, response, bodyUsed>>

(***************************************************************************)
(* handleErrorResponse.                                                    *)
(***************************************************************************)
\* whether response.json() resolves for this body, and whether it settles at all
jsonResolves(b) == b.k \in {"null", "object"}
jsonSettles(b) == b.k # "stalled"

\* errorMsg after the try block: the base, with the body's message appended
\* when the body decodes to a value with a truthy message
errorMessage(r) ==
  LET base == <<ToString(r.status), " ", r.statusText>>
  IN IF r.body.k = "object" /\ Truthy(r.body.message)
     THEN base \o <<": ", String(r.body.message)>>
     ELSE base

\* the retryAfter argument of Rapid7RateLimitError
retryAfterOf(header) ==
  IF header.present /\ header.chars # <<>> THEN parseInt(header.chars) ELSE Undefined

\* handleErrorResponse treating 401 alone as an authentication failure
handleErrorResponse401Only(r) ==
  IF r.status = 401
  THEN Rapid7AuthError(<<"Authentication failed: ">> \o errorMessage(r), Num(r.status))
  ELSE IF r.status = 429
  THEN Rapid7RateLimitError(<<"Rate limited: ">> \o errorMessage(r),
                            retryAfterOf(r.retryAfter))
  ELSE Rapid7ClientError(<<"Request failed: ">> \o errorMessage(r), Num(r.status))

\* handleErrorResponse testing `status >= 429` for the rate limit
handleErrorResponseFrom429(r) ==
  IF r.status = 401 \/ r.status = 403
  THEN Rapid7AuthError(<<"Authentication failed: ">> \o errorMessage(r), Num(r.status))
  ELSE IF r.status >= 429
  THEN Rapid7RateLimitError(<<"Rate limited: ">> \o errorMessage(r),
                            retryAfterOf(r.retryAfter))
  ELSE Rapid7ClientError(<<"Request failed: ">> \o errorMessage(r), Num(r.status))

\* handleErrorResponse without its final throw: it returns for the other statuses
handleErrorResponseNoFinalThrow(r) ==
  IF r.status = 401 \/ r.status = 403
  THEN Rapid7AuthError(<<"Authentication failed: ">> \o errorMessage(r), Num(r.status))
  ELSE IF r.status = 429
  THEN Rapid7RateLimitError(<<"Rate limited: ">> \o errorMessage(r),
                            retryAfterOf(r.retryAfter))
  ELSE NoError

\* handleErrorResponse without the catch around its body read
handleErrorResponseNoCatch(r) ==
  IF r.body.k = "notJSON" THEN JsonSyntaxError
  ELSE IF r.body.k = "unreadable" THEN BodyReadError
  ELSE IF r.body.k = "null"
  THEN JsError("TypeError", <<"Cannot read properties of null (reading 'message')">>,
               Undefined, Undefined)
  ELSE IF r.status = 401 \/ r.status = 403
  THEN Rapid7AuthError(<<"Authentication failed: ">> \o errorMessage(r), Num(r.status))
  ELSE IF r.status = 429
  THEN Rapid7RateLimitError(<<"Rate limited: ">> \o errorMessage(r),
                            retryAfterOf(r.retryAfter))
  ELSE Rapid7ClientError(<<"Request failed: ">> \o errorMessage(r), Num(r.status))

\* the error handleErrorResponse throws once the body read has settled
handleErrorResponse(r) ==
  IF r.status = 401 \/ r.status = 403
  THEN Rapid7AuthError(<<"Authentication failed: ">> \o errorMessage(r), Num(r.status))
  ELSE IF r.status = 429
  THEN Rapid7RateLimitError(<<"Rate limited: ">> \o errorMessage(r),
                            retryAfterOf(r.retryAfter))
  ELSE Rapid7ClientError(<<"Request failed: ">> \o errorMessage(r), Num(r.status))

\* ErrorJsonSettles with a classifier that puts the request's verb in the message
ErrorJsonSettlesWithMethod(c) ==
  /\ pc[c] = "awaitErrorJson"
  /\ jsonSettles(response[c].body)
  /\ result' = [result EXCEPT ![c] =
                  Rejected([handleErrorResponse(response[c]) EXCEPT
                              !.message = <<desc[c].method, " ">> \o @])]
  /\ pc' = [pc EXCEPT ![c] = "settled"]
  /\ UNCHANGED <<config, desc, timer, aborted, fetched, response, bodyUsed>>

\* the body read of handleErrorResponse settles; a classifier that threw
\* nothing would let request go on to its 204 check and JSON decoding
ErrorJsonSettles(c) ==
  /\ pc[c] = "awaitErrorJson"
  /\ jsonSettles(response[c].body)
  /\ IF handleErrorResponse(response[c]) # NoError
     THEN /\ result' = [result EXCEPT ![c] = Rejected(handleErrorResponse(response[c]))]
          /\ pc' = [pc EXCEPT ![c] = "settled"]
          /\ UNCHANGED bodyUsed
     ELSE IF response[c].status = 204
     THEN /\ result' = [result EXCEPT ![c] = Fulfilled(EmptyObject)]
          /\ pc' = [pc EXCEPT ![c] = "settled"]
          /\ UNCHANGED bodyUsed
     ELSE /\ pc' = [pc EXCEPT ![c] = "awaitJson"]
          /\ bodyUsed' = [bodyUsed EXCEPT ![c] = @ + 1]
          /\ UNCHANGED result
  /\ UNCHANGED <<config, desc, timer, aborted, fetched, response>>

\* decodeJson that reports an undecodable body as a failure of the API
decodeJsonClassified(b, used) ==
  IF used > 1 THEN Rejected(JsError("TypeError", <<"Body is unusable">>, Undefined, Undefined))
  ELSE IF jsonResolves(b) THEN Fulfilled(b)
  ELSE Rejected(Rapid7ClientError(<<"Request failed: invalid JSON">>, Num(200)))

\* what `await response.json()` of the success path yields
decodeJson(b, used) ==
  IF used > 1 THEN Rejected(JsError("TypeError", <<"Body is unusable">>, Undefined, Undefined))
  ELSE IF jsonResolves(b) THEN Fulfilled(b)
  ELSE IF b.k = "notJSON" THEN Rejected(JsonSyntaxError)
  ELSE Rejected(BodyReadError)

\* the body read of the success path settles: request returns or throws
JsonSettles(c) ==
  /\ pc[c] = "awaitJson"
  /\ jsonSettles(response[c].body) \/ bodyUsed[c] > 1
  /\ result' = [result EXCEPT ![c] = decodeJson(response[c].body, bodyUsed[c])]
  /\ pc' = [pc EXCEPT ![c] = "settled"]
  /\ UNCHANGED <<config, desc, timer, aborted, fetched, response, bodyUsed>>


(***************************************************************************)
(* The typed accessors and the verb helpers they call.                     *)
(***************************************************************************)
get(endpoint, params) == Descriptor("GET", endpoint, params, Undefined)
post(endpoint, body, params) == Descriptor("POST", endpoint, params, body)
put(endpoint, body, params) == Descriptor("PUT", endpoint, params, body)

\* patch copied from put with the verb left as it was
patchAsPut(endpoint, body, params) == Descriptor("PUT", endpoint, params, body)

patch(endpoint, body, params) == Descriptor("PATCH", endpoint, params, body)

\* the default `params = {}` of the accessors that take params
defaultParams(params) == IF params.present THEN params ELSE ParamsOf(<<>>)

AccessorNames ==
  { "getInvestigations", "getInvestigation", "createInvestigation",
     "updateInvestigation", "addInvestigationComment",
     "getInvestigationTimeline", "getInvestigationAlerts", "searchLogs",
     "getLogSets", "getLogEntry", "getLogStats", "getAlerts", "getAlert",
     "updateAlertStatus", "getAlertEvidence", "getAssets", "getAsset",
     "getAssetActivity", "getUsers", "getUserActivity", "getRiskyUsers",
     "getThreatIndicators", "addThreatIndicator", "searchThreatActivity",
     "getSavedQueries", "createSavedQuery" }

\* what each accessor takes: how many identifiers, and params, a body or neither
Signature(name) ==
    CASE name = "getInvestigations" -> [ids |-> 0, takes |-> "params"]
      [] name = "getInvestigation" -> [ids |-> 1, takes |-> "none"]
      [] name = "createInvestigation" -> [ids |-> 0, takes |-> "body"]
      [] name = "updateInvestigation" -> [ids |-> 1, takes |-> "body"]
      [] name = "addInvestigationComment" -> [ids |-> 1, takes |-> "body"]
      [] name = "getInvestigationTimeline" -> [ids |-> 1, takes |-> "params"]
      [] name = "getInvestigationAlerts" -> [ids |-> 1, takes |-> "params"]
      [] name = "searchLogs" -> [ids |-> 1, takes |-> "body"]
      [] name = "getLogSets" -> [ids |-> 0, takes |-> "none"]
      [] name = "getLogEntry" -> [ids |-> 2, takes |-> "none"]
      [] name = "getLogStats" -> [ids |-> 1, takes |-> "body"]
      [] name = "getAlerts" -> [ids |-> 0, takes |-> "params"]
      [] name = "getAlert" -> [ids |-> 1, takes |-> "none"]
      [] name = "updateAlertStatus" -> [ids |-> 1, takes |-> "body"]
      [] name = "getAlertEvidence" -> [ids |-> 1, takes |-> "params"]
      [] name = "getAssets" -> [ids |-> 0, takes |-> "params"]
      [] name = "getAsset" -> [ids |-> 1, takes |-> "none"]
      [] name = "getAssetActivity" -> [ids |-> 1, takes |-> "params"]
      [] name = "getUsers" -> [ids |-> 0, takes |-> "params"]
      [] name = "getUserActivity" -> [ids |-> 1, takes |-> "params"]
      [] name = "getRiskyUsers" -> [ids |-> 0, takes |-> "params"]
      [] name = "getThreatIndicators" -> [ids |-> 0, takes |-> "params"]
      [] name = "addThreatIndicator" -> [ids |-> 0, takes |-> "body"]
      [] name = "searchThreatActivity" -> [ids |-> 0, takes |-> "params"]
      [] name = "getSavedQueries" -> [ids |-> 0, takes |-> "params"]
      [] name = "createSavedQuery" -> [ids |-> 0, takes |-> "body"]

\* the call of request an accessor makes
accessor(a) ==
    CASE a.name = "getInvestigations" ->
         get(Path(<<"idr", "v2", "investigations">>), defaultParams(a.params))
      [] a.name = "getInvestigation" ->
         get(Path(<<"idr", "v2", "investigations", a.id>>), NoParams)
      [] a.name = "createInvestigation" ->
         post(Path(<<"idr", "v2", "investigations">>), a.body, NoParams)
      [] a.name = "updateInvestigation" ->
         patch(Path(<<"idr", "v2", "investigations", a.id>>), a.body, NoParams)
      [] a.name = "addInvestigationComment" ->
         post(Path(<<"idr", "v2", "investigations", a.id, "comments">>), a.body, NoParams)
      [] a.name = "getInvestigationTimeline" ->
         get(Path(<<"idr", "v2", "investigations", a.id, "timeline">>), defaultParams(a.params))
      [] a.name = "getInvestigationAlerts" ->
         get(Path(<<"idr", "v2", "investigations", a.id, "alerts">>), defaultParams(a.params))
      [] a.name = "searchLogs" ->
         post(Path(<<"log_search", "query", "logsets", a.id>>), a.body, NoParams)
      [] a.name = "getLogSets" ->
         get(Path(<<"log_search", "management", "logsets">>), NoParams)
      [] a.name = "getLogEntry" ->
         get(Path(<<"log_search", "query", "logsets", a.id, "entries", a.id2>>), NoParams)
      [] a.name = "getLogStats" ->
         post(Path(<<"log_search", "query", "logsets", a.id, "stats">>), a.body, NoParams)
      [] a.name = "getAlerts" ->
         get(Path(<<"idr", "v2", "alerts">>), defaultParams(a.params))
      [] a.name = "getAlert" ->
         get(Path(<<"idr", "v2", "alerts", a.id>>), NoParams)
      [] a.name = "updateAlertStatus" ->
         patch(Path(<<"idr", "v2", "alerts", a.id>>), a.body, NoParams)
      [] a.name = "getAlertEvidence" ->
         get(Path(<<"idr", "v2", "alerts", a.id, "evidence">>), defaultParams(a.params))
      [] a.name = "getAssets" ->
         get(Path(<<"idr", "v2", "assets">>), defaultParams(a.params))
      [] a.name = "getAsset" ->
         get(Path(<<"idr", "v2", "assets", a.id>>), NoParams)
      [] a.name = "getAssetActivity" ->
         get(Path(<<"idr", "v2", "assets", a.id, "activity">>), defaultParams(a.params))
      [] a.name = "getUsers" ->
         get(Path(<<"idr", "v2", "accounts">>), defaultParams(a.params))
      [] a.name = "getUserActivity" ->
         get(Path(<<"idr", "v2", "accounts", a.id, "activity">>), defaultParams(a.params))
      [] a.name = "getRiskyUsers" ->
         get(Path(<<"idr", "v2", "accounts", "risky">>), defaultParams(a.params))
      [] a.name = "getThreatIndicators" ->
         get(Path(<<"idr", "v2", "threat_indicators">>), defaultParams(a.params))
      [] a.name = "addThreatIndicator" ->
         post(Path(<<"idr", "v2", "threat_indicators">>), a.body, NoParams)
      [] a.name = "searchThreatActivity" ->
         get(Path(<<"idr", "v2", "threat_indicators", "activity">>), defaultParams(a.params))
      [] a.name = "getSavedQueries" ->
         get(Path(<<"log_search", "management", "saved_queries">>), defaultParams(a.params))
      [] a.name = "createSavedQuery" ->
         post(Path(<<"log_search", "management", "saved_queries">>), a.body, NoParams)

Ids == {"42", "rrn:7"}
CallerParams ==
  { NoParams,
    ParamsOf(<< <<"size", Num(20)>>, <<"sort", Undefined>>, <<"index", Num(0)>> >>) }
CallerBodies == { Obj("{\"title\":\"t\"}") }

\* the accessor calls explored: every accessor with every argument at hand
AccessorCalls ==
  { AccessorCall(n, i, j, p, b) :
      n \in AccessorNames, i \in Ids \cup {""}, j \in Ids \cup {""},
      p \in CallerParams, b \in CallerBodies \cup {Undefined} }
    \cap { a \in [name : AccessorNames, id : Ids \cup {""}, id2 : Ids \cup {""},
                  params : CallerParams, body : CallerBodies \cup {Undefined}] :
             /\ (a.id # "") = (Signature(a.name).ids >= 1)
             /\ (a.id2 # "") = (Signature(a.name).ids = 2)
             /\ a.params.present => Signature(a.name).takes = "params"
             /\ (a.body # Undefined) = (Signature(a.name).takes = "body") }

\* one call of every accessor
OneCallEach ==
  { a \in AccessorCalls :
      /\ a.id \in {"", "42"} /\ a.id2 \in {"", "rrn:7"}
      /\ a.params.present = (Signature(a.name).takes = "params") }

\* an accessor is called: it calls request
StartAccessor(c, calls) ==
  /\ pc[c] = "idle"
  /\ \E a \in calls :
       /\ StartRequest(c, {accessor(a)})
       /\ acc' = [acc EXCEPT ![c] = [call |-> a, result |-> Pending]]

\* `return this.get(...)`: the accessor's promise takes the state of request's
returnAwaited(r) == r

\* the accessor's promise settles once request has settled
AccessorSettles(c) ==
  /\ pc[c] = "settled"
  /\ acc[c].call # NoAccessorCall
  /\ acc[c].result.state = "pending"
  /\ acc' = [acc EXCEPT ![c].result = returnAwaited(result[c])]
  /\ UNCHANGED <<clientVars, bootVars>>


(***************************************************************************)
(* The tool handlers list_alerts, get_asset and get_investigation.  The    *)
(* data of a decoded body is absent (""), an empty list ("empty"), a list  *)
(* ("rows"), a list with metadata beside it ("page") or an object ("item").*)
(***************************************************************************)
\* JSON.stringify of an object built member by member
quote(text) == "\"" \o text \o "\""
member(key, v) == <<key, JSONstringify(v).s>>
nested(key, json) == <<key, json>>
when(cond, entry) == IF cond THEN <<entry>> ELSE <<>>
RECURSIVE joinMembers(_)
joinMembers(es) ==
  IF es = <<>> THEN ""
  ELSE quote(es[1][1]) \o ":" \o es[1][2]
         \o (IF Len(es) > 1 THEN "," \o joinMembers(Tail(es)) ELSE "")
jsonObject(es) == "{" \o joinMembers(es) \o "}"

\* the tools whose result is a page of rows, with the accessor each calls and
\* the query parameter of its first optional filter
PaginatedTools ==
  {"search_investigations", "get_investigation_alerts", "list_alerts", "search_assets",
   "search_users", "get_risky_users", "list_threat_indicators", "search_threat_activity",
   "list_saved_queries"}
ActivityTools == {"get_asset_activity", "get_user_activity"}
\* the tools that read the fields of response.data, whatever it is
EntityTools ==
  {"get_alert", "get_asset", "create_investigation", "update_investigation",
   "add_investigation_comment", "update_alert_status", "add_threat_indicator"}
\* the tools that also read inside a field of response.data
StrictEntityTools == {"get_alert_evidence", "get_log_entry", "create_saved_query"}
LogTools == {"search_logs", "list_log_sets", "get_log_stats"}
ClientTools ==
  PaginatedTools \cup ActivityTools \cup EntityTools \cup StrictEntityTools
    \cup LogTools \cup {"get_investigation"}

AccessorOf(tool) ==
  CASE tool = "search_investigations" -> "getInvestigations"
    [] tool = "get_investigation_alerts" -> "getInvestigationAlerts"
    [] tool = "list_alerts" -> "getAlerts"
    [] tool = "search_assets" -> "getAssets"
    [] tool = "search_users" -> "getUsers"
    [] tool = "get_risky_users" -> "getRiskyUsers"
    [] tool = "list_threat_indicators" -> "getThreatIndicators"
    [] tool = "search_threat_activity" -> "searchThreatActivity"
    [] tool = "list_saved_queries" -> "getSavedQueries"
    [] tool = "get_asset_activity" -> "getAssetActivity"
    [] tool = "get_user_activity" -> "getUserActivity"
    [] tool = "get_alert" -> "getAlert"
    [] tool = "get_asset" -> "getAsset"
    [] tool = "create_investigation" -> "createInvestigation"
    [] tool = "update_investigation" -> "updateInvestigation"
    [] tool = "add_investigation_comment" -> "addInvestigationComment"
    [] tool = "update_alert_status" -> "updateAlertStatus"
    [] tool = "add_threat_indicator" -> "addThreatIndicator"
    [] tool = "get_alert_evidence" -> "getAlertEvidence"
    [] tool = "get_log_entry" -> "getLogEntry"
    [] tool = "create_saved_query" -> "createSavedQuery"
    [] tool = "search_logs" -> "searchLogs"
    [] tool = "list_log_sets" -> "getLogSets"
    [] tool = "get_log_stats" -> "getLogStats"
    [] tool = "get_investigation" -> "getInvestigation"

FilterKey(tool) ==
  CASE tool = "search_investigations" -> "statuses"
    [] tool = "list_alerts" -> "severity"
    [] tool = "search_assets" -> "hostname"
    [] tool = "search_users" -> "name"
    [] tool = "get_risky_users" -> "risk_level"
    [] tool = "list_threat_indicators" -> "type"
    [] tool = "search_threat_activity" -> "indicator_value"
    [] tool = "list_saved_queries" -> "search"
    [] OTHER -> ""

\* the params a paginated tool builds: size and index always, a filter when truthy
pageParams(call) ==
  ParamsOf(<< <<"size", call.args.size>>, <<"index", call.args.index>> >>
             \o when(FilterKey(call.tool) # "" /\ Truthy(call.args.filter),
                     <<FilterKey(call.tool), call.args.filter>>))

\* the params of the activity tools: size, and type unless it is "ALL"
activityParams(call) ==
  ParamsOf(<< <<"size", call.args.size>> >>
             \o when(call.args.filter # Str("ALL"), <<"type", call.args.filter>>))

assignee(email) == nested("assignee", jsonObject(<<member("email", email)>>))

\* updateBody that forgets the title
updateBodyNoTitle(args) ==
  when(Truthy(args.status), member("status", args.status))
    \o when(Truthy(args.priority), member("priority", args.priority))
    \o when(Truthy(args.disposition), member("disposition", args.disposition))
    \o when(Truthy(args.assignee_email), assignee(args.assignee_email))

\* the body update_investigation builds: a member for every truthy argument
updateBody(args) ==
  when(Truthy(args.status), member("status", args.status))
    \o when(Truthy(args.priority), member("priority", args.priority))
    \o when(Truthy(args.disposition), member("disposition", args.disposition))
    \o when(Truthy(args.assignee_email), assignee(args.assignee_email))
    \o when(Truthy(args.title), member("title", args.title))

\* during testing from and to for truthiness
duringTruthy(args) ==
  IF Truthy(args.from) /\ Truthy(args.to)
  THEN jsonObject(<<member("from", args.from), member("to", args.to)>>)
  ELSE IF Truthy(args.time_range)
  THEN jsonObject(<<member("time_range", args.time_range)>>)
  ELSE jsonObject(<<member("time_range", Str("Last 24 Hours"))>>)

\* body.during of search_logs and get_log_stats
during(args) ==
  IF args.from # Undefined /\ args.to # Undefined
  THEN jsonObject(<<member("from", args.from), member("to", args.to)>>)
  ELSE IF Truthy(args.time_range)
  THEN jsonObject(<<member("time_range", args.time_range)>>)
  ELSE jsonObject(<<member("time_range", Str("Last 24 Hours"))>>)

leql(statement) == nested("leql", jsonObject(<<member("statement", Str(statement))>>))

\* the body a tool hands to its accessor, as the members of the object
bodyOf(call) ==
  CASE call.tool = "create_investigation" ->
         << member("title", call.args.title), member("priority", call.args.priority),
            member("status", call.args.status) >>
           \o when(Truthy(call.args.disposition), member("disposition", call.args.disposition))
           \o when(Truthy(call.args.assignee_email), assignee(call.args.assignee_email))
    [] call.tool = "update_investigation" -> updateBody(call.args)
    [] call.tool = "add_investigation_comment" ->
         << member("body", Str("note")), member("visibility", Str("PUBLIC")) >>
    [] call.tool = "update_alert_status" ->
         << member("status", call.args.status) >>
           \o when(Truthy(call.args.assignee_email), assignee(call.args.assignee_email))
    [] call.tool = "add_threat_indicator" ->
         << member("type", Str("IP")), member("value", Str("10.0.0.1")),
            member("source", Str("custom")), member("severity", Str("MEDIUM")) >>
    [] call.tool = "create_saved_query" ->
         << member("name", Str("q")), leql("calculate(count)"), nested("logs", "[\"42\"]") >>
    [] call.tool = "search_logs" ->
         << leql("where(action = BLOCK)"), member("per_page", Num(50)),
            nested("during", during(call.args)) >>
    [] call.tool = "get_log_stats" ->
         << leql("calculate(count)"), nested("during", during(call.args)) >>
    [] OTHER -> <<>>

BodyTools ==
  {"create_investigation", "update_investigation", "add_investigation_comment",
   "update_alert_status", "add_threat_indicator", "create_saved_query", "search_logs",
   "get_log_stats"}

\* the arguments a tool gives its accessor
accessorCallOf(call) ==
  AccessorCall(AccessorOf(call.tool),
               IF call.tool \in {"list_log_sets"} \cup (PaginatedTools \ {"get_investigation_alerts"})
                    \cup {"create_investigation", "add_threat_indicator", "create_saved_query"}
               THEN "" ELSE call.id,
               IF call.tool = "get_log_entry" THEN "log-1" ELSE "",
               IF call.tool \in PaginatedTools THEN pageParams(call)
               ELSE IF call.tool \in ActivityTools THEN activityParams(call)
               ELSE NoParams,
               IF call.tool \in BodyTools THEN Obj(jsonObject(bodyOf(call))) ELSE Undefined)

\* update_investigation returns before any client call when no field is given
returnsEarly(call) == call.tool = "update_investigation" /\ Len(updateBody(call.args)) = 0

\* accessorCallsOf with the timeline fetched only after the investigation
accessorCallsOfPrimaryFirst(call) ==
  IF returnsEarly(call) THEN <<>>
  ELSE IF call.tool = "get_investigation"
  THEN << AccessorCall("getInvestigation", call.id, "", NoParams, Undefined) >>
  ELSE << accessorCallOf(call) >>

\* the accessor calls a handler makes before it first suspends, in order
accessorCallsOf(call) ==
  IF returnsEarly(call) THEN <<>>
  ELSE IF call.tool = "get_investigation"
  THEN << AccessorCall("getInvestigation", call.id, "", NoParams, Undefined),
          AccessorCall("getInvestigationTimeline", call.id, "", NoParams, Undefined) >>
  ELSE << accessorCallOf(call) >>

\* what a caller may leave out
Optional(values) == {Undefined} \cup values

PageArgs ==
  { Args(sz[1], sz[2], f) :
      sz \in {<<Num(20), Num(0)>>, <<Num(5), Num(2)>>}, f \in Optional({Str("HIGH")}) }
UpdateArgs ==
  { [NoArgs EXCEPT !.status = s, !.priority = p, !.disposition = d,
                   !.assignee_email = a, !.title = t] :
      s \in Optional({Str("CLOSED")}), p \in Optional({Str("HIGH")}),
      d \in Optional({Str("BENIGN")}), a \in Optional({Str("a@b.c")}),
      t \in Optional({Str("T")}) }
CreateArgs ==
  { [NoArgs EXCEPT !.title = Str("T"), !.priority = Str("MEDIUM"), !.status = Str("OPEN"),
                   !.disposition = d, !.assignee_email = a] :
      d \in Optional({Str("BENIGN")}), a \in Optional({Str("a@b.c")}) }
DuringArgs ==
  { [NoArgs EXCEPT !.from = f, !.to = t, !.time_range = r] :
      f \in Optional({Num(0), Num(5)}), t \in Optional({Num(0), Num(9)}),
      r \in Optional({Str(""), Str("Last 7 Days")}) }

\* the tool calls explored: every tool that calls the client, over the
\* arguments its handler branches on
ToolCalls ==
  { ToolCall(t, "", a) : t \in PaginatedTools \ {"get_investigation_alerts"}, a \in PageArgs }
    \cup { ToolCall("get_investigation_alerts", "42", a) :
             a \in { x \in PageArgs : x.filter = Undefined } }
    \cup { ToolCall(t, "42", Args(Num(50), Undefined, f)) :
             t \in ActivityTools, f \in {Str("ALL"), Str("LOGIN")} }
    \cup { ToolCall(t, i, NoArgs) : t \in {"get_asset", "get_investigation"}, i \in Ids }
    \cup { ToolCall(t, "42", NoArgs) :
             t \in {"get_alert", "add_investigation_comment", "get_alert_evidence",
                    "get_log_entry"} }
    \cup { ToolCall(t, "", NoArgs) :
             t \in {"add_threat_indicator", "create_saved_query", "list_log_sets"} }
    \cup { ToolCall("create_investigation", "", a) : a \in CreateArgs }
    \cup { ToolCall("update_investigation", "rrn:7", a) : a \in UpdateArgs }
    \cup { ToolCall("update_alert_status", "42",
                    [NoArgs EXCEPT !.status = Str("CLOSED"), !.assignee_email = a]) :
             a \in Optional({Str("a@b.c")}) }
    \cup { ToolCall(t, "42", a) : t \in {"search_logs", "get_log_stats"}, a \in DuringArgs }

\* a tool is invoked: the handler runs up to its await, every accessor it
\* calls having issued its fetch, or up to its early return
InvokeTool(calls) ==
  /\ handler.pc = "idle"
  /\ \A c \in Calls : pc[c] = "idle"
  /\ \E call \in calls :
       LET as == accessorCallsOf(call)
           n == Len(as)
           made(c) == c <= n
       IN /\ handler' = Handler(call, IF returnsEarly(call) THEN "returned" ELSE "await")
          /\ payload' = IF returnsEarly(call)
                        THEN ErrorPayload(<<"At least one field must be provided to update">>)
                        ELSE payload
          /\ acc' = [c \in Calls |->
                       IF made(c) THEN [call |-> as[c], result |-> Pending] ELSE acc[c]]
          /\ desc' = [c \in Calls |-> IF made(c) THEN accessor(as[c]) ELSE desc[c]]
          /\ fetched' = [c \in Calls |->
                           IF made(c) THEN Append(fetched[c], fetchCall(config, accessor(as[c])))
                           ELSE fetched[c]]
          /\ timer' = [c \in Calls |-> IF made(c) THEN "pending" ELSE timer[c]]
          /\ aborted' = [c \in Calls |-> IF made(c) THEN FALSE ELSE aborted[c]]
          /\ pc' = [c \in Calls |-> IF made(c) THEN "awaitFetch" ELSE pc[c]]
  /\ UNCHANGED <<config, response, bodyUsed, result, bootVars>>

TypeErrorOf(message) == JsError("TypeError", message, Undefined, Undefined)
CannotRead(of, property) ==
  TypeErrorOf(<<"Cannot read properties of ", of, " (reading '", property, "')">>)

ShapeReturned(shaped) == [threw |-> FALSE, error |-> NoError, shaped |-> shaped]
ShapeThrew(error) == [threw |-> TRUE, error |-> error, shaped |-> NoShaped]

\* the metadata beside the rows of a page
Metadata(data) ==
  IF data = "page" THEN [index |-> Num(0), size |-> Num(20), total_data |-> Num(57)]
  ELSE [index |-> Num(1), size |-> Num(10), total_data |-> Num(7)]
IsPage(data) == data \in {"page", "pageOther"}
IsList(data) == data \in {"empty", "rows", "page", "pageOther"}

\* shapePage reporting the window of the server's metadata
shapePageEchoMetadata(call, v) ==
  IF v.k = "null" THEN ShapeThrew(CannotRead("null", "data"))
  ELSE IF v.data \in {"", "events", "logsets", "statistics"}
  THEN ShapeThrew(CannotRead("undefined", "map"))
  ELSE IF v.data = "item" THEN ShapeThrew(TypeErrorOf(<<"response.data.map is not a function">>))
  ELSE IF ~IsPage(v.data) THEN ShapeThrew(CannotRead("undefined", "total_data"))
  ELSE ShapeReturned(ShapedPage(call.tool, v.data, Metadata(v.data).total_data,
                                Metadata(v.data).size, Metadata(v.data).index))

\* a paginated tool: response.data.map(...), response.metadata.total_data, size, index
shapePage(call, v) ==
  IF v.k = "null" THEN ShapeThrew(CannotRead("null", "data"))
  ELSE IF v.data \in {"", "events", "logsets", "statistics"}
  THEN ShapeThrew(CannotRead("undefined", "map"))
  ELSE IF v.data = "item" THEN ShapeThrew(TypeErrorOf(<<"response.data.map is not a function">>))
  ELSE IF ~IsPage(v.data) THEN ShapeThrew(CannotRead("undefined", "total_data"))
  ELSE ShapeReturned(ShapedPage(call.tool, v.data, Metadata(v.data).total_data,
                                call.args.size, call.args.index))

\* list_alerts: response.data.map(...), response.metadata.total_data
shapeListAlerts(call, v) == shapePage(call, v)

\* an activity tool: response.data.map(...), total: response.data.length
shapeActivity(call, v) ==
  IF v.k = "null" THEN ShapeThrew(CannotRead("null", "data"))
  ELSE IF v.data \in {"", "events", "logsets", "statistics"}
  THEN ShapeThrew(CannotRead("undefined", "map"))
  ELSE IF v.data = "item" THEN ShapeThrew(TypeErrorOf(<<"response.data.map is not a function">>))
  ELSE ShapeReturned(Shaped(call.tool, v.data, "absent"))

\* get_asset and the like: asset = response.data, asset.id, ...
shapeGetAsset(call, v) ==
  IF v.k = "null" THEN ShapeThrew(CannotRead("null", "data"))
  ELSE IF v.data \in {"", "events", "logsets", "statistics"}
  THEN ShapeThrew(CannotRead("undefined", "id"))
  ELSE ShapeReturned(Shaped(call.tool, v.data, "absent"))

\* get_alert_evidence (evidence.indicators.map), create_saved_query
\* (query.leql.statement), get_log_entry (new Date(entry.timestamp).toISOString())
shapeStrict(call, v) ==
  IF v.k = "null" THEN ShapeThrew(CannotRead("null", "data"))
  ELSE IF v.data \in {"", "events", "logsets", "statistics"}
  THEN ShapeThrew(CannotRead("undefined", "id"))
  ELSE IF v.data # "item"
  THEN ShapeThrew(CASE call.tool = "get_alert_evidence" -> CannotRead("undefined", "map")
                    [] call.tool = "create_saved_query" -> CannotRead("undefined", "statement")
                    [] OTHER -> JsError("RangeError", <<"Invalid time value">>,
                                        Undefined, Undefined))
  ELSE ShapeReturned(Shaped(call.tool, v.data, "absent"))

\* the log tools: response.events.map, response.logsets.map, response.statistics.from
shapeLogs(call, v) ==
  LET field == CASE call.tool = "search_logs" -> "events"
                 [] call.tool = "list_log_sets" -> "logsets"
                 [] OTHER -> "statistics"
  IN IF v.k = "null" THEN ShapeThrew(CannotRead("null", field))
     ELSE IF v.data # field
     THEN ShapeThrew(CannotRead("undefined", IF field = "statistics" THEN "from" ELSE "map"))
     ELSE ShapeReturned(Shaped(call.tool, v.data, "absent"))

\* get_investigation: inv = invResponse.data, inv.id, ..., timelineResponse.data
shapeGetInvestigation(inv, tl) ==
  IF inv.k = "null" THEN ShapeThrew(CannotRead("null", "data"))
  ELSE IF inv.data \in {"", "events", "logsets", "statistics"}
  THEN ShapeThrew(CannotRead("undefined", "id"))
  ELSE IF tl.k = "null" THEN ShapeThrew(CannotRead("null", "data"))
  ELSE ShapeReturned(Shaped("get_investigation", inv.data,
                            IF tl.data \in {"", "events", "logsets", "statistics"}
                            THEN "undefined" ELSE tl.data))

\* the timeline promise without its catch
noCatchTimeline(p) == p

\* .catch(() => ({ data: [] })) on the timeline promise
catchTimeline(p) ==
  IF p.state = "rejected" THEN Fulfilled(Body("object", Undefined, "empty")) ELSE p

\* the state of Promise.all([p, q]): rejected once one is, fulfilled once both are
PromiseAll(p, q) ==
  IF p.state = "rejected" THEN "rejected"
  ELSE IF q.state = "rejected" THEN "rejected"
  ELSE IF p.state = "fulfilled" /\ q.state = "fulfilled" THEN "fulfilled"
  ELSE "pending"
PromiseAllError(p, q) == IF p.state = "rejected" THEN p.error ELSE q.error

\* what the handler awaits: its state and, once rejected, the error
awaited(call) ==
  IF call.tool = "get_investigation"
  THEN [state |-> PromiseAll(acc[1].result, catchTimeline(acc[2].result)),
        error |-> PromiseAllError(acc[1].result, catchTimeline(acc[2].result))]
  ELSE [state |-> acc[1].result.state, error |-> acc[1].result.error]

\* the rest of the try block once the await has a value
shape(call) ==
  CASE call.tool = "list_alerts" -> shapeListAlerts(call, acc[1].result.value)
    [] call.tool \in PaginatedTools \ {"list_alerts"} -> shapePage(call, acc[1].result.value)
    [] call.tool \in ActivityTools -> shapeActivity(call, acc[1].result.value)
    [] call.tool \in EntityTools -> shapeGetAsset(call, acc[1].result.value)
    [] call.tool \in StrictEntityTools -> shapeStrict(call, acc[1].result.value)
    [] call.tool \in LogTools -> shapeLogs(call, acc[1].result.value)
    [] call.tool = "get_investigation" ->
         shapeGetInvestigation(acc[1].result.value, catchTimeline(acc[2].result).value)

HandlerReturned(p) == [threw |-> FALSE, payload |-> p]
HandlerThrew == [threw |-> TRUE, payload |-> NoPayload]

\* a catch block that lets through what is not a failure of the API
handlerCatchClassified(error) ==
  IF error.name \in {"Rapid7ClientError", "Rapid7AuthError", "Rapid7RateLimitError"}
  THEN HandlerReturned(ErrorPayload(error.message))
  ELSE HandlerThrew

\* the catch block of a handler: error instanceof Error ? error.message : String(error)
handlerCatch(error) == HandlerReturned(ErrorPayload(error.message))

\* HandlerResumes with the activity tools degrading a failed call to no rows
HandlerResumesDegradeActivity ==
  /\ handler.pc = "await"
  /\ awaited(handler.call).state # "pending"
  /\ LET a == awaited(handler.call)
         sh == shape(handler.call)
         out == IF a.state = "rejected" /\ handler.call.tool \in ActivityTools
                THEN HandlerReturned(SuccessPayload(Shaped(handler.call.tool, "empty", "absent")))
                ELSE IF a.state = "rejected" THEN handlerCatch(a.error)
                ELSE IF sh.threw THEN handlerCatch(sh.error)
                ELSE HandlerReturned(SuccessPayload(sh.shaped))
     IN /\ handler' = [handler EXCEPT !.pc = IF out.threw THEN "threw" ELSE "returned"]
        /\ payload' = out.payload
  /\ UNCHANGED <<clientVars, bootVars, acc>>

\* the await of the handler settles: the handler shapes and returns, or catches
HandlerResumes ==
  /\ handler.pc = "await"
  /\ awaited(handler.call).state # "pending"
  /\ LET a == awaited(handler.call)
         sh == shape(handler.call)
         out == IF a.state = "rejected" THEN handlerCatch(a.error)
                ELSE IF sh.threw THEN handlerCatch(sh.error)
                ELSE HandlerReturned(SuccessPayload(sh.shaped))
     IN /\ handler' = [handler EXCEPT !.pc = IF out.threw THEN "threw" ELSE "returned"]
        /\ payload' = out.payload
  /\ UNCHANGED <<clientVars, bootVars, acc>>

(***************************************************************************)
(* Specifications.  Each explores one invocation per behaviour; they       *)
(* differ in which inputs range widely.                                    *)
(***************************************************************************)
OthersIdle(c) == \A o \in Calls \ {c} : pc[o] = "idle"

Settle(c, rs) ==
  \/ TimerFires(c)
  \/ FetchResolves(c, rs)
  \/ FetchRejects(c)
  \/ ErrorJsonSettles(c)
  \/ JsonSettles(c)

\* responses range widely, descriptors do not
FewDescriptors ==
  { Descriptor("GET", e, NoParams, Undefined) : e \in Endpoints }
    \cup { Descriptor("POST", e, NoParams, Obj("{\"title\":\"t\"}")) : e \in Endpoints }

Next ==
  /\ \E c \in Calls :
       \/ OthersIdle(c) /\ StartRequest(c, FewDescriptors)
       \/ Settle(c, Responses)
  /\ UNCHANGED <<bootVars, acc, toolVars>>

Spec == Init /\ [][Next]_vars

\* responses whose body arrives whole, breaks, or never finishes arriving
LiveResponses ==
  { Response(st, "OK", NoHeader, b) :
      st \in {200, 204, 401, 500},
      b \in {Body("stalled", Undefined, ""), Body("unreadable", Undefined, ""),
             Body("object", Undefined, "rows"), Body("object", Str("denied"), "")} }

NextLive ==
  /\ \E c \in Calls :
       \/ StartRequest(c, FewDescriptors)
       \/ Settle(c, LiveResponses)
  /\ UNCHANGED <<bootVars, acc, toolVars>>

\* a step of the client alone
ClientStep(A) == A /\ UNCHANGED <<bootVars, acc, toolVars>>

\* what the runtime guarantees: a started timer fires unless cancelled, an
\* aborted fetch rejects, and the continuation of a body read that has
\* settled runs
Fairness ==
  \A c \in Calls :
    /\ WF_vars(ClientStep(TimerFires(c)))
    /\ WF_vars(ClientStep(aborted[c] /\ FetchRejects(c)))
    /\ WF_vars(ClientStep(ErrorJsonSettles(c)))
    /\ WF_vars(ClientStep(JsonSettles(c)))

SpecLive == Init /\ [][NextLive]_vars /\ Fairness

\* descriptors range widely, responses do not
Descriptors ==
  { Descriptor(m, e, p, b) :
      m \in Methods, e \in Endpoints,
      p \in {NoParams} \cup { ParamsOf(es) : es \in EntryLists },
      b \in BodyValues }
FewResponses ==
  { Response(200, "OK", NoHeader, Body("object", Undefined, "rows")),
    Response(500, "", NoHeader, Body("notJSON", Undefined, "")) }

NextDescriptor ==
  /\ \E c \in Calls :
       \/ OthersIdle(c) /\ StartRequest(c, Descriptors)
       \/ Settle(c, FewResponses)
  /\ UNCHANGED <<bootVars, acc, toolVars>>

SpecDescriptor == Init /\ [][NextDescriptor]_vars

\* main with the client constructed and everything registered before the
\* configuration is validated
StartupClientFirst ==
  /\ main = "start"
  /\ config' = newRapid7Client(getConfig(env).config)
  /\ IF getConfig(env).threw
     THEN /\ main' = "exited"
          /\ steps' = SubSeq(StartupSteps, 2, Len(StartupSteps) - 1) \o <<"getConfig">>
          /\ exitCode' = Num(1)
     ELSE /\ main' = "connected"
          /\ steps' = SubSeq(StartupSteps, 2, Len(StartupSteps) - 1) \o <<"getConfig", "connect">>
          /\ UNCHANGED exitCode
  /\ UNCHANGED <<env, pc, desc, timer, aborted, fetched, response, bodyUsed, result, acc,
                 toolVars>>

\* main up to the connection of the transport: the configuration is read, the
\* client constructed, everything registered and the transport connected; or
\* getConfig throws, main rejects and its catch exits the process
Startup ==
  /\ main = "start"
  /\ IF getConfig(env).threw
     THEN /\ main' = "exited"
          /\ steps' = <<"getConfig">>
          /\ exitCode' = Num(1)
          /\ UNCHANGED config
     ELSE /\ config' = newRapid7Client(getConfig(env).config)
          /\ main' = "connected"
          /\ steps' = StartupSteps
          /\ UNCHANGED exitCode
  /\ UNCHANGED <<env, pc, desc, timer, aborted, fetched, response, bodyUsed, result, acc,
                 toolVars>>

InitConfig ==
  /\ env \in Envs
  /\ main = "start"
  /\ steps = <<>>
  /\ exitCode = Undefined
  /\ config = newRapid7Client(NoConfig)
  /\ pc = [c \in Calls |-> "idle"]
  /\ desc = [c \in Calls |-> NoDescriptor]
  /\ timer = [c \in Calls |-> "unset"]
  /\ aborted = [c \in Calls |-> FALSE]
  /\ fetched = [c \in Calls |-> <<>>]
  /\ response = [c \in Calls |-> NoResponse]
  /\ bodyUsed = [c \in Calls |-> 0]
  /\ result = [c \in Calls |-> Pending]
  /\ acc = [c \in Calls |-> NoAccessor]
  /\ handler = NoHandler
  /\ payload = NoPayload

\* main alone, over every environment
NextStartup == Startup

SpecStartup == InitConfig /\ [][NextStartup]_vars

\* the server from its start, over every environment
NextConfig ==
  \/ Startup
  \/ /\ main = "connected"
     /\ \E c \in Calls :
          \/ OthersIdle(c) /\ StartAccessor(c, OneCallEach)
          \/ Settle(c, FewResponses) /\ UNCHANGED acc
          \/ AccessorSettles(c)
     /\ UNCHANGED <<bootVars, toolVars>>

SpecConfig == InitConfig /\ [][NextConfig]_vars

\* the typed accessors, one call per behaviour
NextAccessor ==
  /\ \E c \in Calls :
       \/ OthersIdle(c) /\ StartAccessor(c, AccessorCalls)
       \/ Settle(c, FewResponses) /\ UNCHANGED acc
       \/ AccessorSettles(c)
  /\ UNCHANGED <<bootVars, toolVars>>

SpecAccessor == Init /\ [][NextAccessor]_vars

\* what the remote side answers a tool's calls with
HandlerResponses ==
  { Response(200, "OK", NoHeader, Body("object", Undefined, "page")),
    Response(200, "OK", NoHeader, Body("object", Undefined, "item")),
    Response(200, "OK", NoHeader, Body("object", Undefined, "rows")),
    Response(200, "OK", NoHeader, EmptyObject),
    Response(200, "OK", NoHeader, Body("null", Undefined, "")),
    Response(200, "OK", NoHeader, Body("notJSON", Undefined, "")),
    Response(200, "OK", NoHeader, Body("object", Undefined, "pageOther")),
    Response(200, "OK", NoHeader, Body("object", Undefined, "events")),
    Response(200, "OK", NoHeader, Body("object", Undefined, "logsets")),
    Response(200, "OK", NoHeader, Body("object", Undefined, "statistics")),
    Response(204, "No Content", NoHeader, EmptyObject),
    Response(403, "Forbidden", NoHeader, Body("object", Str("denied"), "")),
    Response(429, "", [present |-> TRUE, chars |-> <<"3", "0">>],
             Body("null", Undefined, "")),
    Response(500, "", NoHeader, Body("notJSON", Undefined, "")) }

\* one tool invocation per behaviour
NextHandler ==
  /\ \/ InvokeTool(ToolCalls)
     \/ \E c \in Calls :
          \/ Settle(c, HandlerResponses) /\ UNCHANGED <<acc, toolVars>>
          \/ AccessorSettles(c) /\ UNCHANGED toolVars
     \/ HandlerResumes
  /\ UNCHANGED bootVars

SpecHandler == Init /\ [][NextHandler]_vars

\* non-success responses for overlapping runs of the classifier
ClassifyResponses ==
  { Response(st, tx, IF st = 429 THEN [present |-> TRUE, chars |-> <<"a">>] ELSE NoHeader, b) :
      st \in {401, 429, 500}, tx \in StatusTexts,
      b \in {Body("notJSON", Undefined, ""), Body("object", Str("denied"), "")} }

NextClassify ==
  /\ \E c \in Calls :
       \/ StartRequest(c, FewDescriptors)
       \/ Settle(c, ClassifyResponses)
  /\ UNCHANGED <<bootVars, acc, toolVars>>

SpecClassify == Init /\ [][NextClassify]_vars

\* overlapping invocations on one client, over few descriptors and responses
OverlapResponses ==
  { Response(200, "OK", NoHeader, Body("object", Undefined, "rows")),
    Response(204, "No Content", NoHeader, EmptyObject),
    Response(401, "Unauthorized", NoHeader, Body("null", Undefined, "")),
    Response(429, "", [present |-> TRUE, chars |-> <<"3", "0">>],
             Body("object", Str("denied"), "")),
    Response(200, "OK", NoHeader, Body("notJSON", Undefined, "")) }

NextOverlap ==
  /\ \E c \in Calls :
       \/ StartRequest(c, FewDescriptors)
       \/ Settle(c, OverlapResponses)
  /\ UNCHANGED <<bootVars, acc, toolVars>>

SpecOverlap == Init /\ [][NextOverlap]_vars

TypeOK ==
  /\ config \in Configs
  /\ \A c \in Calls :
       /\ pc[c] \in {"idle", "awaitFetch", "awaitErrorJson", "awaitJson", "settled"}
       /\ timer[c] \in {"unset", "pending", "fired", "cleared"}
       /\ aborted[c] \in BOOLEAN
       /\ Len(fetched[c]) <= 1
       /\ result[c].state \in {"pending", "fulfilled", "rejected"}
       /\ (pc[c] = "settled") = (result[c].state # "pending")


(***************************************************************************)
(* Properties.                                                             *)
(***************************************************************************)
Settled(c) == pc[c] = "settled"
Responded(c) == response[c] # NoResponse
Raised(c, name) == result[c].state = "rejected" /\ result[c].error.name = name

\* C1: on every exit path of request the timeout timer has been cancelled
\* (or has fired) by the time the invocation settles: no settled invocation
\* has a pending timer.
NoLeakedTimer ==
  \A c \in Calls : Settled(c) => timer[c] \in {"cleared", "fired"}

\* an invocation that ended by rethrowing a transport error, timer cancelled
NoLeakedTimerWitness ==
  \E c \in Calls :
    Settled(c) /\ timer[c] = "cleared" /\ result[c] = Rejected(NetworkError)

\* C2: when the timer fires before fetch resolves, request raises a
\* Rapid7ClientError (not Auth, not RateLimit) whose message holds the
\* configured timeout in milliseconds and whose statusCode is absent.
TimeoutRaisesGeneric ==
  \A c \in Calls :
    (Settled(c) /\ timer[c] = "fired") =>
      /\ Raised(c, "Rapid7ClientError")
      /\ Contains(result[c].error.message, String(config.timeout))
      /\ Contains(result[c].error.message, "ms")
      /\ result[c].error.statusCode = Undefined

\* an invocation whose timer fired and that has settled, under the 5000 ms timeout
TimeoutRaisesGenericWitness ==
  \E c \in Calls :
    Settled(c) /\ timer[c] = "fired" /\ aborted[c] /\ config.timeout = Num(5000)

\* C3: a 401 or 403 response makes request raise a Rapid7AuthError whose
\* statusCode is the response status, whatever the body and the headers.
AuthOn401And403 ==
  \A c \in Calls :
    (Settled(c) /\ response[c].status \in {401, 403}) =>
      /\ Raised(c, "Rapid7AuthError")
      /\ result[c].error.statusCode = Num(response[c].status)

\* a settled 403 whose body decodes to null and which carries a Retry-After header
AuthOn401And403Witness ==
  \E c \in Calls :
    /\ Settled(c) /\ response[c].status = 403
    /\ response[c].body.k = "null" /\ response[c].retryAfter.present

\* whether the header text starts with an integer (optional sign, then a digit)
LeadsWithInteger(chars) ==
  LET rest == IF chars # <<>> /\ Head(chars) \in {"-", "+"} THEN Tail(chars) ELSE chars
  IN rest # <<>> /\ IsDigit(Head(rest))

\* C4: a 429 response makes request raise a Rapid7RateLimitError whose
\* retryAfter is the integer read from the Retry-After header when the header
\* is present and parseable, and undefined otherwise.
RetryAfterIntegerOrUndefined ==
  \A c \in Calls :
    (Settled(c) /\ response[c].status = 429) =>
      /\ Raised(c, "Rapid7RateLimitError")
      /\ IF response[c].retryAfter.present /\ LeadsWithInteger(response[c].retryAfter.chars)
         THEN /\ result[c].error.retryAfter.t = "number"
              /\ result[c].error.retryAfter = parseInt(response[c].retryAfter.chars)
         ELSE result[c].error.retryAfter = Undefined

\* C5: any other non-success status makes request raise a plain
\* Rapid7ClientError whose statusCode is the response status and whose message
\* holds the numeric status.
GenericOnOtherStatus ==
  \A c \in Calls :
    (Settled(c) /\ Responded(c) /\ ~ok(response[c])
       /\ response[c].status \notin {401, 403, 429}) =>
      /\ Raised(c, "Rapid7ClientError")
      /\ result[c].error.statusCode = Num(response[c].status)
      /\ Contains(result[c].error.message, ToString(response[c].status))

\* a settled 500 whose body carries a message
GenericOnOtherStatusWitness ==
  \E c \in Calls :
    /\ Settled(c) /\ response[c].status = 500
    /\ response[c].body = Body("object", Str("denied"), "")

\* C6: for a non-success response request never returns a value: it raises
\* one of the three failure kinds, and control reaches neither the 204 check
\* nor the JSON decoding of the success path.
ClassifierAlwaysRaises ==
  \A c \in Calls :
    (Responded(c) /\ ~ok(response[c])) =>
      /\ pc[c] \in {"awaitErrorJson", "settled"}
      /\ bodyUsed[c] = 1
      /\ Settled(c) =>
           /\ result[c].state = "rejected"
           /\ result[c].error.name \in
                {"Rapid7ClientError", "Rapid7AuthError", "Rapid7RateLimitError"}

\* a settled 304, a non-success status outside the 4xx and 5xx families
ClassifierAlwaysRaisesWitness ==
  \E c \in Calls :
    Settled(c) /\ response[c].status = 304 /\ response[c].body.k = "unreadable"

\* C7: a 204 response makes request return an empty object without reading
\* the response body, whatever the body holds.
NoContentReturnsEmpty ==
  \A c \in Calls :
    (Responded(c) /\ response[c].status = 204) =>
      /\ Settled(c)
      /\ result[c] = Fulfilled(EmptyObject)
      /\ bodyUsed[c] = 0

\* a settled 204 whose body holds data
NoContentReturnsEmptyWitness ==
  \E c \in Calls :
    /\ Settled(c) /\ response[c].status = 204
    /\ response[c].body = Body("object", Undefined, "rows")

\* C8: the outbound call carries the JSON text of the body exactly when the
\* caller supplied a body (0, false, "" and null included), and no body when
\* the caller supplied none.
BodySentIffSupplied ==
  \A c \in Calls :
    \A i \in 1..Len(fetched[c]) :
      /\ (fetched[c][i].body # Undefined) = (desc[c].body # Undefined)
      /\ fetched[c][i].body = JSONstringify(desc[c].body)

\* C9: the query string holds exactly one key=String(value) entry for each
\* entry of params whose value is neither undefined nor null, in the order
\* of the input, and no entry for a key whose value is undefined or null.
QueryMatchesParams ==
  \A c \in Calls :
    \A i \in 1..Len(fetched[c]) :
      LET query == fetched[c][i].url.searchParams
          entries == desc[c].params.entries
          kept == { k \in 1..Len(entries) : entries[k][2] \notin {Undefined, Null} }
          rank(k) == Cardinality({ j \in kept : j <= k })
          text(v) == CASE v = Str("x") -> "x"
                       [] v = Num(3) -> "3"
                       [] v = Bool(FALSE) -> "false"
                       [] OTHER -> String(v)
      IN /\ Len(query) = Cardinality(kept)
         /\ \A k \in kept : query[rank(k)] = <<entries[k][1], text(entries[k][2])>>
         /\ \A k \in (1..Len(entries)) \ kept :
              \A q \in 1..Len(query) : query[q][1] # entries[k][1]

\* a call whose params hold a null entry before a number entry
QueryMatchesParamsWitness ==
  \E c \in Calls :
    /\ fetched[c] # <<>>
    /\ desc[c].params.entries = << <<"b", Null>>, <<"a", Num(3)>> >>
    /\ fetched[c][1].url.searchParams = << <<"a", "3">> >>

\* C10: every outbound call carries exactly the headers X-Api-Key (the
\* configured key), Content-Type: application/json and Accept:
\* application/json, for every verb and with or without a body.
ExactlyThreeHeaders ==
  \A c \in Calls :
    \A i \in 1..Len(fetched[c]) :
      /\ Cardinality(fetched[c][i].headers) = 3
      /\ <<"X-Api-Key", config.apiKey>> \in fetched[c][i].headers
      /\ <<"Content-Type", "application/json">> \in fetched[c][i].headers
      /\ <<"Accept", "application/json">> \in fetched[c][i].headers

\* a PATCH issued without a body under the second configuration
ExactlyThreeHeadersWitness ==
  \E c \in Calls :
    /\ fetched[c] # <<>>
    /\ fetched[c][1].method = "PATCH" /\ fetched[c][1].body = Undefined
    /\ config.apiKey = "key-B"


\* C11: an invocation issues exactly one network call whatever its outcome
\* (timeout, classified failure, transport error, JSON parse failure): no
\* second call is ever issued, and a timed-out invocation ends rejected.
ExactlyOneFetch ==
  \A c \in Calls :
    /\ Len(fetched[c]) = (IF pc[c] = "idle" THEN 0 ELSE 1)
    /\ (Settled(c) /\ timer[c] = "fired") => result[c].state = "rejected"

\* an invocation that ended on a JSON parse failure after its single call
ExactlyOneFetchWitness ==
  \E c \in Calls :
    Settled(c) /\ result[c] = Rejected(JsonSyntaxError) /\ Len(fetched[c]) = 1

\* C20 as stated: an invocation is suspended at the await of fetch and
\* nowhere else.
SuspendedOnlyAtFetch ==
  \A c \in Calls : pc[c] \in {"idle", "awaitFetch", "settled"}

\* C20 as amended: an invocation is suspended at the await of fetch, or,
\* once it holds a response, at the await of the body read (in the classifier
\* for a non-success status, in the JSON decoding for a success status other
\* than 204), and nowhere else.
SuspendedAtFetchOrBodyRead ==
  \A c \in Calls :
    /\ pc[c] \in {"idle", "awaitFetch", "awaitErrorJson", "awaitJson", "settled"}
    /\ pc[c] = "awaitFetch" => ~Responded(c)
    /\ pc[c] = "awaitErrorJson" => Responded(c) /\ ~ok(response[c])
    /\ pc[c] = "awaitJson" =>
         Responded(c) /\ ok(response[c]) /\ response[c].status # 204

\* an invocation suspended in the classifier on a body that never arrives
SuspendedAtFetchOrBodyReadWitness ==
  \E c \in Calls :
    /\ pc[c] = "awaitErrorJson" /\ response[c].body.k = "stalled"
    /\ timer[c] = "cleared"


\* the outcome an invocation's own response and own timer call for
OwnOutcome(c) ==
  IF ~Responded(c)
  THEN IF timer[c] = "fired"
       THEN Rejected(Rapid7ClientError(
              <<"InsightIDR API timeout after ", String(config.timeout), "ms">>,
              Undefined))
       ELSE Rejected(NetworkError)
  ELSE IF ~ok(response[c]) THEN Rejected(handleErrorResponse(response[c]))
  ELSE IF response[c].status = 204 THEN Fulfilled(EmptyObject)
  ELSE decodeJson(response[c].body, 1)

\* C12: with overlapping invocations on one client, each invocation has its
\* own timer and abort signal: a signal is aborted only by its own timer, and
\* the outcome of an invocation is the one its own response and its own timer
\* call for, whatever the other invocations do.
InvocationsIndependent ==
  \A c \in Calls :
    /\ aborted[c] => timer[c] = "fired"
    /\ Settled(c) => result[c] = OwnOutcome(c)
    /\ Len(fetched[c]) > 0 => fetched[c][1] = fetchCall(config, desc[c])

\* one invocation has timed out while an overlapping one still waits, unaborted
InvocationsIndependentWitness ==
  \E c, o \in Calls :
    /\ c # o
    /\ Settled(c) /\ timer[c] = "fired" /\ result[c].state = "rejected"
    /\ pc[o] = "awaitFetch" /\ timer[o] = "pending" /\ ~aborted[o]


\* C17: every configuration getConfig returns has a non-empty apiKey and a
\* timeout that is a positive integer of milliseconds, 30000 when
\* RAPID7_TIMEOUT is unset, whatever RAPID7_TIMEOUT holds.
TimeoutPositiveInteger ==
  main = "connected" =>
    /\ config.apiKey # ""
    /\ config.timeout.t = "number" /\ config.timeout.n > 0
    /\ ~env.RAPID7_TIMEOUT.set => config.timeout = Num(30000)

\* C18: getConfig throws whenever RAPID7_API_KEY or RAPID7_REGION is missing,
\* and whenever the region is unknown and no base URL override is set.
MissingRequiredThrows ==
  LET region == env.RAPID7_REGION
      unknown == region.set /\ toLowerCase(region.v) \notin DOMAIN REGION_URLS
  IN main # "start" =>
       /\ ~env.RAPID7_API_KEY.set => main = "exited"
       /\ ~region.set => main = "exited"
       /\ (unknown /\ Falsy(env.RAPID7_BASE_URL)) => main = "exited"


\* C15: when fetch rejects with an error other than an abort, request rejects
\* with that same error, unchanged: not a Generic, Auth or RateLimit failure.
TransportErrorRethrown ==
  \A c \in Calls :
    (Settled(c) /\ ~Responded(c) /\ ~aborted[c]) =>
      /\ result[c].state = "rejected"
      /\ result[c].error \in FetchErrors(c)
      /\ result[c].error.name \notin
           {"Rapid7ClientError", "Rapid7AuthError", "Rapid7RateLimitError"}

\* a connection failure before any abort has come back out of request as it was
TransportErrorRethrownWitness ==
  \E c \in Calls :
    /\ Settled(c) /\ ~Responded(c) /\ ~aborted[c] /\ Len(fetched[c]) = 1
    /\ result[c].state = "rejected" /\ result[c].error.message = <<"fetch failed">>


Last(url) == url[Len(url)]

\* C16: for every configured base URL, region default or override, with any
\* number of trailing slashes, the baseUrl of the configuration does not end
\* in "/", and the URL of every accessor's call is that baseUrl followed by a
\* path that begins with "/", with no duplicated slash where they join.
BaseUrlNormalized ==
  main = "connected" =>
    LET base == config.baseUrl
        n == Len(base)
        configured == IF Falsy(env.RAPID7_BASE_URL)
                      THEN REGION_URLS[toLowerCase(IF Falsy(env.RAPID7_REGION) THEN "us"
                                                   ELSE env.RAPID7_REGION.v)]
                      ELSE env.RAPID7_BASE_URL.v
    IN /\ n > 0 /\ Last(base) # "/"
       /\ \E k \in 0..Len(configured) : configured = base \o Slashes(k)
       /\ \A c \in Calls : \A i \in 1..Len(fetched[c]) :
            LET href == fetched[c][i].url.href
            IN /\ Len(href) >= n + 2
               /\ SubSeq(href, 1, n) = base
               /\ href[n + 1] = "/"
               /\ href[n + 2] # "/"
               /\ SubSeq(href, n + 1, Len(href)) = desc[c].endpoint

\* an accessor has called out with a base URL set with the most trailing slashes
BaseUrlNormalizedWitness ==
  /\ main = "connected"
  /\ env.RAPID7_BASE_URL.set
  /\ Len(env.RAPID7_BASE_URL.v) = Len(config.baseUrl) + MaxSlashes
  /\ MaxSlashes > 1
  /\ \E c \in Calls : acc[c].call.name = "getLogEntry" /\ Len(fetched[c]) = 1


\* the endpoint table: the verb and the path template of every named operation
EndpointTable(name) ==
    CASE name = "getInvestigations" ->
         [verb |-> "GET", template |-> <<"idr", "v2", "investigations">>]
      [] name = "getInvestigation" ->
         [verb |-> "GET", template |-> <<"idr", "v2", "investigations", "{id}">>]
      [] name = "createInvestigation" ->
         [verb |-> "POST", template |-> <<"idr", "v2", "investigations">>]
      [] name = "updateInvestigation" ->
         [verb |-> "PATCH", template |-> <<"idr", "v2", "investigations", "{id}">>]
      [] name = "addInvestigationComment" ->
         [verb |-> "POST", template |-> <<"idr", "v2", "investigations", "{id}", "comments">>]
      [] name = "getInvestigationTimeline" ->
         [verb |-> "GET", template |-> <<"idr", "v2", "investigations", "{id}", "timeline">>]
      [] name = "getInvestigationAlerts" ->
         [verb |-> "GET", template |-> <<"idr", "v2", "investigations", "{id}", "alerts">>]
      [] name = "searchLogs" ->
         [verb |-> "POST", template |-> <<"log_search", "query", "logsets", "{id}">>]
      [] name = "getLogSets" ->
         [verb |-> "GET", template |-> <<"log_search", "management", "logsets">>]
      [] name = "getLogEntry" ->
         [verb |-> "GET", template |-> <<"log_search", "query", "logsets", "{id}", "entries", "{logId}">>]
      [] name = "getLogStats" ->
         [verb |-> "POST", template |-> <<"log_search", "query", "logsets", "{id}", "stats">>]
      [] name = "getAlerts" ->
         [verb |-> "GET", template |-> <<"idr", "v2", "alerts">>]
      [] name = "getAlert" ->
         [verb |-> "GET", template |-> <<"idr", "v2", "alerts", "{id}">>]
      [] name = "updateAlertStatus" ->
         [verb |-> "PATCH", template |-> <<"idr", "v2", "alerts", "{id}">>]
      [] name = "getAlertEvidence" ->
         [verb |-> "GET", template |-> <<"idr", "v2", "alerts", "{id}", "evidence">>]
      [] name = "getAssets" ->
         [verb |-> "GET", template |-> <<"idr", "v2", "assets">>]
      [] name = "getAsset" ->
         [verb |-> "GET", template |-> <<"idr", "v2", "assets", "{id}">>]
      [] name = "getAssetActivity" ->
         [verb |-> "GET", template |-> <<"idr", "v2", "assets", "{id}", "activity">>]
      [] name = "getUsers" ->
         [verb |-> "GET", template |-> <<"idr", "v2", "accounts">>]
      [] name = "getUserActivity" ->
         [verb |-> "GET", template |-> <<"idr", "v2", "accounts", "{id}", "activity">>]
      [] name = "getRiskyUsers" ->
         [verb |-> "GET", template |-> <<"idr", "v2", "accounts", "risky">>]
      [] name = "getThreatIndicators" ->
         [verb |-> "GET", template |-> <<"idr", "v2", "threat_indicators">>]
      [] name = "addThreatIndicator" ->
         [verb |-> "POST", template |-> <<"idr", "v2", "threat_indicators">>]
      [] name = "searchThreatActivity" ->
         [verb |-> "GET", template |-> <<"idr", "v2", "threat_indicators", "activity">>]
      [] name = "getSavedQueries" ->
         [verb |-> "GET", template |-> <<"log_search", "management", "saved_queries">>]
      [] name = "createSavedQuery" ->
         [verb |-> "POST", template |-> <<"log_search", "management", "saved_queries">>]

\* a path template with its path parameters replaced by the identifiers given
Substitute(template, id, logId) ==
  [i \in 1..Len(template) |->
     IF template[i] = "{id}" THEN id
     ELSE IF template[i] = "{logId}" THEN logId
     ELSE template[i]]

\* C19: every typed accessor makes exactly one request, with the verb and the
\* path of the endpoint table (path parameters replaced by the identifiers
\* the caller gave), passes the caller's params or body on unchanged, and
\* returns what request decoded or raises what request raised.
AccessorPassThrough ==
  \A c \in Calls :
    acc[c].call # NoAccessorCall =>
      LET a == acc[c].call
          row == EndpointTable(a.name)
      IN /\ desc[c].method = row.verb
         /\ desc[c].endpoint = Path(Substitute(row.template, a.id, a.id2))
         /\ desc[c].params.entries = a.params.entries
         /\ desc[c].body = a.body
         /\ Len(fetched[c]) = 1
         /\ fetched[c][1] = fetchCall(config, desc[c])
         /\ fetched[c][1].method = row.verb
         /\ ~Settled(c) => acc[c].result = Pending
         /\ acc[c].result # Pending => acc[c].result = result[c]

\* an accessor with a path parameter and a body has returned what request decoded
AccessorPassThroughWitness ==
  \E c \in Calls :
    /\ acc[c].call.name = "updateInvestigation" /\ acc[c].call.id = "rrn:7"
    /\ fetched[c][1].method = "PATCH"
    /\ acc[c].result.state = "fulfilled" /\ acc[c].result = result[c]


\* the decoded value carries no data to shape: JSON null, or an object without data
LacksData(v) == v.k = "null" \/ v.data \in {"", "events", "logsets", "statistics"}

\* the decoded value has no field at all: JSON null, or the {} of a 204
NoFields(v) == v.k = "null" \/ v.data = ""

\* C13: a tool handler always ends by returning a payload, never by throwing:
\* when the client call or the shaping of its result fails (a classified
\* failure, a timeout, a transport error, or a TypeError on a missing field
\* such as data on a 204 response) the payload has isError true and its text
\* is the JSON of a single error message; a success payload has no isError.
HandlerNeverThrows ==
  /\ handler.pc # "threw"
  /\ (handler.pc = "returned" /\ returnsEarly(handler.call)) => payload.isError = "true"
  /\ (handler.pc = "returned" /\ ~returnsEarly(handler.call)) =>
       LET primary == result[1]
       IN /\ payload.isError \in {"true", "absent"}
          /\ payload.isError = "true" => payload.shaped = NoShaped /\ Len(payload.error) > 0
          /\ primary.state = "rejected" => payload = ErrorPayload(primary.error.message)
          /\ (primary.state = "fulfilled" /\ NoFields(primary.value)) =>
               /\ payload.isError = "true"
               /\ payload.error[1] = "Cannot read properties of "
          /\ (primary.state = "fulfilled" /\ ~shape(handler.call).threw) =>
               payload = SuccessPayload(shape(handler.call).shaped)
          /\ payload.isError = "absent" =>
               /\ primary.state = "fulfilled" /\ ~NoFields(primary.value)
               /\ payload.error = <<>> /\ payload.shaped.tool = handler.call.tool

\* get_asset has returned an error payload for the TypeError on a 204 response
HandlerNeverThrowsWitness ==
  /\ handler.call.tool = "get_asset" /\ handler.pc = "returned"
  /\ response[1].status = 204 /\ result[1] = Fulfilled(EmptyObject)
  /\ payload.isError = "true"
  /\ payload.error = <<"Cannot read properties of ", "undefined", " (reading '", "id", "')">>


TimelineFailedAlone ==
  /\ handler.call.tool = "get_investigation" /\ handler.pc = "returned"
  /\ result[1].state = "fulfilled" /\ result[2].state = "rejected"

\* C14: in get_investigation, whenever the primary fetch succeeds, a failure of
\* the timeline fetch gives a success payload whose timeline is the empty list.
TimelineFailureDegrades ==
  TimelineFailedAlone =>
    payload.isError = "absent" /\ payload.shaped.timeline = "empty"

\* C14, amended: in get_investigation, whenever the primary fetch succeeds with
\* a decoded body that carries data, a failure of the timeline fetch gives a
\* success payload whose timeline is the empty list; when the timeline fetch
\* fails, an error payload is that of the primary fetch's failure or of its
\* missing data, never that of the timeline.
TimelineFailureDegradesWithData ==
  /\ (TimelineFailedAlone /\ ~LacksData(result[1].value)) =>
       payload.isError = "absent" /\ payload.shaped.timeline = "empty"
  /\ ( /\ handler.call.tool = "get_investigation" /\ handler.pc = "returned"
       /\ result[2].state = "rejected" /\ payload.isError = "true" ) =>
       \/ result[1].state = "rejected" /\ payload.error = result[1].error.message
       \/ /\ result[1].state = "fulfilled" /\ LacksData(result[1].value)
          /\ payload.error[1] = "Cannot read properties of "

\* the investigation came back with data, the timeline call was rate limited,
\* and the handler returned the investigation with an empty timeline
TimelineFailureDegradesWithDataWitness ==
  /\ TimelineFailedAlone
  /\ result[1].value.data = "item"
  /\ result[2].error.name = "Rapid7RateLimitError"
  /\ payload = SuccessPayload(Shaped("get_investigation", "item", "empty"))

Classified(c) == Settled(c) /\ Responded(c) /\ ~ok(response[c])

ParseErrorPropagates ==
  \A c \in Calls :
    (Settled(c) /\ Responded(c) /\ ok(response[c]) /\ response[c].status # 204) =>
      /\ response[c].body.k = "notJSON" =>
           /\ result[c] = Rejected(JsonSyntaxError)
           /\ result[c].error.name \notin
                {"Rapid7ClientError", "Rapid7AuthError", "Rapid7RateLimitError"}
           /\ result[c].error.statusCode = Undefined
      /\ jsonResolves(response[c].body) => result[c] = Fulfilled(response[c].body)

\* a 200 response whose body is not JSON has made request raise a SyntaxError
ParseErrorPropagatesWitness ==
  \E c \in Calls :
    /\ Settled(c) /\ response[c].status = 200 /\ response[c].body.k = "notJSON"
    /\ result[c].state = "rejected" /\ result[c].error.name = "SyntaxError"

\* the failure kind a status stands for, and the label its message begins with
KindOf(status) ==
  IF status \in {401, 403} THEN "Rapid7AuthError"
  ELSE IF status = 429 THEN "Rapid7RateLimitError"
  ELSE "Rapid7ClientError"
LabelOf(status) ==
  IF status \in {401, 403} THEN "Authentication failed: "
  ELSE IF status = 429 THEN "Rate limited: "
  ELSE "Request failed: "
BaseMessage(r) == <<LabelOf(r.status), ToString(r.status), " ", r.statusText>>
HasMessageField(b) == b.k = "object" /\ b.message # Undefined

\* C23: the enrichment of the error message never changes the outcome kind:
\* for every non-success response, whatever its body, the classifier raises
\* the kind its status stands for; the message is the base alone when no
\* message field can be read, and has the body's message appended when the
\* body has a message field.
EnrichmentKeepsKind ==
  \A c \in Calls :
    Classified(c) =>
      /\ Raised(c, KindOf(response[c].status))
      /\ result[c].error.message =
           (IF HasMessageField(response[c].body)
            THEN BaseMessage(response[c]) \o <<": ", String(response[c].body.message)>>
            ELSE BaseMessage(response[c]))

\* C23, amended: as above, with the body's message appended exactly when the
\* body decodes to an object whose message is truthy (not the empty string).
EnrichmentKeepsKindTruthy ==
  \A c \in Calls :
    Classified(c) =>
      /\ Raised(c, KindOf(response[c].status))
      /\ result[c].error.message =
           (IF HasMessageField(response[c].body) /\ Truthy(response[c].body.message)
            THEN BaseMessage(response[c]) \o <<": ", String(response[c].body.message)>>
            ELSE BaseMessage(response[c]))

\* a rate-limit response whose body broke off has raised the rate-limit failure
\* with the base message alone
EnrichmentKeepsKindTruthyWitness ==
  \E c \in Calls :
    /\ Classified(c) /\ response[c].status = 429 /\ response[c].body.k = "unreadable"
    /\ Raised(c, "Rapid7RateLimitError")
    /\ result[c].error.message = BaseMessage(response[c])

\* the place of a step in what main has done, 0 when it has not been done
IndexOf(step) ==
  IF \E i \in 1..Len(steps) : steps[i] = step
  THEN CHOOSE i \in 1..Len(steps) : steps[i] = step
  ELSE 0
Done(step) == IndexOf(step) > 0

\* C24: at startup the configuration is resolved first, then the client is
\* constructed, then all tools, resources and prompts are registered, then the
\* transport is connected; if getConfig throws, the client is never
\* constructed, nothing is registered, the transport is never connected and
\* the process exits with code 1.
StartupInOrder ==
  /\ Done("Rapid7Client") => Done("getConfig") /\ IndexOf("getConfig") < IndexOf("Rapid7Client")
  /\ \A i \in 1..Len(RegisterCalls) :
       Done(RegisterCalls[i]) =>
         Done("Rapid7Client") /\ IndexOf("Rapid7Client") < IndexOf(RegisterCalls[i])
  /\ Done("connect") =>
       \A i \in 1..Len(RegisterCalls) :
         Done(RegisterCalls[i]) /\ IndexOf(RegisterCalls[i]) < IndexOf("connect")
  /\ main = "connected" <=> Done("connect")
  /\ (main # "start" /\ getConfig(env).threw) =>
       /\ main = "exited" /\ exitCode = Num(1)
       /\ steps = <<"getConfig">>
       /\ config = newRapid7Client(NoConfig)
       /\ \A c \in Calls : fetched[c] = <<>>
  /\ (main # "start" /\ ~getConfig(env).threw) => main = "connected" /\ exitCode = Undefined

\* with no API key in the environment the process has exited with code 1
\* after getConfig alone
StartupInOrderWitness ==
  /\ ~env.RAPID7_API_KEY.set
  /\ main = "exited" /\ exitCode = Num(1) /\ steps = <<"getConfig">>

\* C25: only get_investigation degrades a failed call to an empty result: in
\* every other tool handler that calls the client, a failure raised by the
\* client call gives an error payload; none returns a success payload after
\* one of its client calls failed.
OnlyInvestigationDegrades ==
  (handler.pc = "returned" /\ handler.call.tool \in ClientTools \ {"get_investigation"}) =>
    /\ \A c \in Calls : c > 1 => acc[c].call = NoAccessorCall
    /\ \A c \in Calls :
         (acc[c].call # NoAccessorCall /\ result[c].state = "rejected") =>
           payload = ErrorPayload(result[c].error.message)
    /\ payload.isError = "absent" =>
         \A c \in Calls : acc[c].call # NoAccessorCall => result[c].state = "fulfilled"

\* get_user_activity has returned an error payload for a call that timed out
OnlyInvestigationDegradesWitness ==
  /\ handler.call.tool = "get_user_activity" /\ handler.pc = "returned"
  /\ timer[1] = "fired" /\ Raised(1, "Rapid7ClientError")
  /\ payload.isError = "true" /\ payload.error = result[1].error.message

\* C26: in every paginated tool handler the success payload's size and index
\* equal the caller's requested values, even when the server's metadata.index
\* or metadata.size differ, and its total equals the server's
\* metadata.total_data.
PageEchoesCaller ==
  (/\ handler.pc = "returned"
   /\ handler.call.tool \in PaginatedTools
   /\ payload.isError = "absent") =>
    /\ payload.shaped.size = handler.call.args.size
    /\ payload.shaped.index = handler.call.args.index
    /\ payload.shaped.total = Metadata(response[1].body.data).total_data

\* list_saved_queries asked for size 5 at index 2 and the server answered with
\* a window of size 20 at index 0
PageEchoesCallerWitness ==
  /\ handler.call.tool = "list_saved_queries" /\ handler.pc = "returned"
  /\ handler.call.args.size = Num(5) /\ handler.call.args.index = Num(2)
  /\ response[1] # NoResponse /\ response[1].body.data = "page"
  /\ Metadata(response[1].body.data).size = Num(20)
  /\ Metadata(response[1].body.data).index = Num(0)
  /\ payload.isError = "absent" /\ payload.shaped.total = Num(57)

InvestigationReturned ==
  handler.call.tool = "get_investigation" /\ handler.pc = "returned"

\* both fetches of get_investigation are out before the handler awaits
BothIssued ==
  (handler.call.tool = "get_investigation" /\ handler.pc \in {"await", "returned"}) =>
    \A c \in 1..2 : Len(fetched[c]) = 1 /\ acc[c].call # NoAccessorCall

\* C27: in get_investigation the primary fetch and the timeline fetch are both
\* issued before either result is awaited, and the payload is an error payload
\* exactly when the primary fetch fails, whatever the timeline fetch does; an
\* error payload never carries investigation or timeline data.
PrimaryDecides ==
  /\ BothIssued
  /\ InvestigationReturned =>
       /\ payload.isError = "true" <=> result[1].state = "rejected"
       /\ payload.isError = "true" => payload.shaped = NoShaped

\* C27, amended: both fetches are issued before either is awaited, and the
\* payload is an error payload exactly when the primary fetch fails, or it
\* succeeds without data, or it succeeds and the timeline fetch resolves to
\* JSON null; a failed or pending timeline fetch never decides; an error
\* payload never carries investigation or timeline data.
PrimaryDecidesWithData ==
  /\ BothIssued
  /\ InvestigationReturned =>
       /\ payload.isError = "true" <=>
            \/ result[1].state = "rejected"
            \/ result[1].state = "fulfilled" /\ LacksData(result[1].value)
            \/ /\ result[1].state = "fulfilled"
               /\ result[2].state = "fulfilled" /\ result[2].value.k = "null"
       /\ payload.isError = "true" => payload.shaped = NoShaped
       /\ result[1].state = "rejected" => payload = ErrorPayload(result[1].error.message)

\* the primary fetch was refused while the timeline fetch was still out, and
\* the handler returned the error payload without waiting for it
PrimaryDecidesWithDataWitness ==
  /\ InvestigationReturned
  /\ result[1].state = "rejected" /\ result[1].error.name = "Rapid7AuthError"
  /\ pc[2] = "awaitFetch" /\ result[2].state = "pending"
  /\ payload = ErrorPayload(result[1].error.message)

\* the members of the fields a caller of update_investigation supplied
SuppliedFields(args) ==
  when(args.status # Undefined, <<"status", quote(args.status.s)>>)
    \o when(args.priority # Undefined, <<"priority", quote(args.priority.s)>>)
    \o when(args.disposition # Undefined, <<"disposition", quote(args.disposition.s)>>)
    \o when(args.assignee_email # Undefined,
            <<"assignee", "{" \o quote("email") \o ":" \o quote(args.assignee_email.s) \o "}">>)
    \o when(args.title # Undefined, <<"title", quote(args.title.s)>>)

\* C28: update_investigation called with none of status, priority,
\* disposition, assignee_email and title returns the error payload "At least
\* one field must be provided to update" and issues no network call; with at
\* least one of them it issues exactly one PATCH whose body holds exactly the
\* supplied fields.
UpdateNeedsAField ==
  (handler.call.tool = "update_investigation" /\ handler.pc # "idle") =>
    IF SuppliedFields(handler.call.args) = <<>>
    THEN /\ handler.pc = "returned"
         /\ payload = ErrorPayload(<<"At least one field must be provided to update">>)
         /\ \A c \in Calls : fetched[c] = <<>> /\ pc[c] = "idle"
    ELSE /\ Len(fetched[1]) = 1
         /\ \A c \in Calls \ {1} : fetched[c] = <<>>
         /\ fetched[1][1].method = "PATCH"
         /\ fetched[1][1].body = Str(jsonObject(SuppliedFields(handler.call.args)))

\* update_investigation was called with no field and returned the error
\* payload without any fetch
UpdateNeedsAFieldWitness ==
  /\ handler.call.tool = "update_investigation" /\ handler.pc = "returned"
  /\ handler.call.args = NoArgs
  /\ payload.isError = "true"
  /\ \A c \in Calls : fetched[c] = <<>>

\* update_investigation was called with a status and an assignee and sent both
UpdateSendsSupplied ==
  /\ handler.call.tool = "update_investigation" /\ handler.pc = "returned"
  /\ Len(fetched[1]) = 1
  /\ fetched[1][1].body =
       Str("{\"status\":\"CLOSED\",\"assignee\":{\"email\":\"a@b.c\"}}")
  /\ payload.isError = "absent"

\* the JSON text of the during field the caller's arguments call for
ExpectedDuring(args) ==
  IF args.from # Undefined /\ args.to # Undefined
  THEN "{\"from\":" \o ToString(args.from.n) \o ",\"to\":" \o ToString(args.to.n) \o "}"
  ELSE IF args.time_range # Undefined /\ args.time_range.s # ""
  THEN "{\"time_range\":\"" \o args.time_range.s \o "\"}"
  ELSE "{\"time_range\":\"Last 24 Hours\"}"

\* the text of the body before its during field
BeforeDuring(tool) ==
  IF tool = "search_logs"
  THEN "{\"leql\":{\"statement\":\"where(action = BLOCK)\"},\"per_page\":50,\"during\":"
  ELSE "{\"leql\":{\"statement\":\"calculate(count)\"},\"during\":"

\* C29: in search_logs and get_log_stats the request body's during field is
\* {from, to} exactly when both from and to are supplied (the value 0
\* included); otherwise {time_range} with the caller's time_range when that
\* is non-empty, and {time_range: "Last 24 Hours"} in every remaining case, so
\* a from or to supplied alone is never sent.
DuringFromCaller ==
  (handler.call.tool \in {"search_logs", "get_log_stats"} /\ handler.pc # "idle") =>
    /\ Len(fetched[1]) = 1
    /\ fetched[1][1].method = "POST"
    /\ fetched[1][1].body =
         Str(BeforeDuring(handler.call.tool) \o ExpectedDuring(handler.call.args) \o "}")

\* search_logs was called with from 0 and to 0 and sent both
DuringFromCallerWitness ==
  /\ handler.call.tool = "search_logs" /\ handler.pc = "returned"
  /\ handler.call.args.from = Num(0) /\ handler.call.args.to = Num(0)
  /\ handler.call.args.time_range = Str("Last 7 Days")
  /\ fetched[1][1].body =
       Str(BeforeDuring("search_logs") \o "{\"from\":0,\"to\":0}" \o "}")

\* get_log_stats was called with a from alone and sent the default range
DuringDropsLoneFrom ==
  /\ handler.call.tool = "get_log_stats" /\ handler.pc = "returned"
  /\ handler.call.args.from = Num(5) /\ handler.call.args.to = Undefined
  /\ handler.call.args.time_range = Undefined
  /\ fetched[1][1].body =
       Str(BeforeDuring("get_log_stats") \o "{\"time_range\":\"Last 24 Hours\"}" \o "}")

\* the invocation waits for a body that never finishes arriving
Stalled(c) ==
  /\ pc[c] \in {"awaitJson", "awaitErrorJson"}
  /\ response[c].body.k = "stalled"

\* C30: every invocation of request eventually settles, assuming only that a
\* started timer eventually fires unless cancelled, also when the server
\* delivers status and headers in time but never finishes delivering the body.
EveryRequestSettles ==
  \A c \in Calls : (pc[c] = "awaitFetch") ~> Settled(c)

\* an invocation settles unless it is left waiting for a stalled body
SettlesUnlessStalled ==
  \A c \in Calls : (pc[c] = "awaitFetch") ~> (Settled(c) \/ Stalled(c))

\* once the response is in, the timer is cancelled and nothing bounds the body read
StalledForever ==
  \A c \in Calls : Stalled(c) => timer[c] = "cleared" /\ ~aborted[c]

\* status and headers of a 200 arrived in time, the body never does
StalledReached ==
  \E c \in Calls : Stalled(c) /\ response[c].status = 200 /\ timer[c] = "cleared"

====
